---------------------------- MODULE Spec2Model ----------------------------
(***************************************************************************)
(* A model of go-apk's package-management engine: the repository index     *)
(* loader (GetRepositoryIndexes), the caching HTTP transport               *)
(* (cacheTransport), the cache path derivation (cachePathFromURL), the     *)
(* installer's overlap policy and the resolver's candidate filter/sort.    *)
(*                                                                         *)
(* Each subsystem has its own variables and its own specification; a       *)
(* specification leaves the variables of the other subsystems untouched.   *)
(***************************************************************************)
EXTENDS Integers, Sequences, FiniteSets, TLC

VARIABLES
    \* ---- GetRepositoryIndexes (src/pkg/apk/util.go) ----
    repos,              \* the repos argument: a sequence of repository lines
    keys,               \* the keys argument: [isNil, m], m a map key name -> key data
    ignoreSignatures,   \* opts.ignoreSignatures
    repoIdx,            \* position of the range loop over repos
    b,                  \* the index bytes fetched for the current repository
    indexes,            \* the named result being accumulated
    griPc,              \* "fetch" | "validate" | "done"
    griRet,             \* what the call returned: [indexes, err]
    \* ---- cacheTransport (src/pkg/apk/cache.go) ----
    fsys,               \* the files under the cache root: path -> [content, mtime]
    dirs,               \* the directories under the cache root: path -> mtime
    now,                \* the clock that stamps modification times
    trips,              \* the number of RoundTrip calls started so far
    tp,                 \* per caller: the frame of its RoundTrip call
    \* ---- cachePathFromURL (src/pkg/apk/cache.go) ----
    root,               \* the root argument, a string (sequence of characters)
    u,                  \* the u argument: [Scheme, Host, Path]
    cpRet,              \* what the call returned: [called, err, cacheFile]
    \* ---- installer: installAPKFiles / addInstalledPackage ----
    targetFS,           \* the target filesystem: path -> bytes
    installedFiles,     \* the InstalledDB's file records: path -> [name, origin]
    installs,           \* the number of packages applied so far
    instRet,            \* the last call: [pkg, entries, applied, err]
    \* ---- resolver: filterPackages / sortPackages ----
    pkgs,               \* the candidate list
    atom,               \* the constraint: [version, compare, pin]
    installed,          \* the installed package, or NoPackage
    found,              \* the result: [done, list]
    \* ---- version.Compare (src/pkg/version/version.go) ----
    actualV,            \* the actual argument, a Version
    requiredV,          \* the required argument, a Version
    compared,           \* the calls made: [done, fwd, bwd]
    \* ---- version.Parse (src/pkg/version/version.go) ----
    versionStr,         \* the version argument, a string (sequence of characters)
    parseRet,           \* what the call returned: [done, err, v]
    \* ---- resolvePackageNameVersionPin (packageNameRegex, src/pkg/version/version.go) ----
    depTokens,          \* how the input was written: a sequence of [kind, text]
    pkgName,            \* the input, a string (sequence of characters)
    constraint,         \* what the call returned: [done, name, version, dep, pin]
    \* ---- SignIndex (src/pkg/apk/filters.go) ----
    indexFile,          \* the bytes of the file at indexFile: a sequence of gzip members
    originalIndex,      \* the bytes the file had before the first call
    signer,             \* the signer: [key, privkeyFile, usable]
    signCalls,          \* the number of SignIndex calls made so far
    signRet,            \* what the last call returned: [called, err]
    \* ---- Split (expandapk) ----
    apkSource,          \* the gzip members the source reader still holds are apkSource[srcPos+1..]
    maxStreams,         \* the stream id at which the expandApkWriter reports errExpandApkWriterMaxStreams
    splitPc,            \* where Split is: loop, after (the loop), done, off
    srcPos,             \* members of apkSource read so far
    gzi,                \* the gzip.Reader: nil or open
    streamId,           \* the expandApkWriter's current stream, -1 before the first Next
    maxStreamsReached,  \* Split's maxStreamsReached
    totalSize,          \* Split's totalSize
    gzipStreams,        \* Split's gzipStreams, the stream ids appended
    streamFiles,        \* bytes in each stream.N.tar.gz of the temp directory
    splitRet,           \* what Split returned: pending, a SplitAPK, an error, or a panic
    tempDir,            \* the directory of os.MkdirTemp: "present" or "removed"
    \* ---- tarfs (random-access view of a tar) ----
    tarfile,            \* the entries of the tar the factory opens
    handleIsReaderAt,   \* whether the streams the factory opens implement io.ReaderAt
    tfsFiles,           \* FS.files
    tfsIndex,           \* FS.index, from a name to its place in tfsFiles
    fileH,              \* the File opened: its entry, handle position and LimitReader
    tfRet,              \* what the last call returned
    readSoFar,          \* the bytes Read returned since Open
    onlyReads,          \* TRUE while nothing but Read was called on the File
    tfOps,              \* calls made so far
    \* ---- ETag paths (cacheFileFromEtag over characters) ----
    etagHeader,         \* the ETag header value of the GET response, a string of characters
    etagCacheFile,      \* the cache path of the request
    etagPc,             \* where retrieveAndSaveFile is: get, createTemp, rename, done
    etagFinal,          \* the final name the placer returned
    etagDirs,           \* the directories MkdirAll was called for
    etagFiles,          \* the files the transport created
    etagRet             \* ok or error

griVars == <<repos, keys, ignoreSignatures, repoIdx, b, indexes, griPc, griRet>>

cacheVars == <<fsys, dirs, now, trips, tp>>

pathVars == <<root, u, cpRet>>

installVars == <<targetFS, installedFiles, installs, instRet>>

resolveVars == <<pkgs, atom, installed, found>>

compareVars == <<actualV, requiredV, compared>>

parseVars == <<versionStr, parseRet>>

depVars == <<depTokens, pkgName, constraint>>

signVars == <<indexFile, originalIndex, signer, signCalls, signRet>>

splitVars == <<apkSource, maxStreams, splitPc, srcPos, gzi, streamId, maxStreamsReached, totalSize, gzipStreams, streamFiles, splitRet, tempDir>>

tarfsVars == <<tarfile, handleIsReaderAt, tfsFiles, tfsIndex, fileH, tfRet, readSoFar, onlyReads, tfOps>>

etagVars == <<etagHeader, etagCacheFile, etagPc, etagFinal, etagDirs, etagFiles, etagRet>>

vars == <<griVars, cacheVars, pathVars, installVars, resolveVars, compareVars, parseVars, depVars, signVars, splitVars, tarfsVars, etagVars>>

\* A specification of one subsystem parks the variables of the others.
GriIdle ==
    /\ repos = <<>> /\ keys = <<>> /\ ignoreSignatures = FALSE /\ repoIdx = 0
    /\ b = <<>> /\ indexes = <<>> /\ griPc = "off" /\ griRet = <<>>

CacheIdle ==
    /\ fsys = <<>> /\ dirs = <<>> /\ now = 0 /\ trips = 0 /\ tp = <<>>

PathIdle ==
    /\ root = <<>> /\ u = <<>> /\ cpRet = <<>>

InstallIdle ==
    /\ targetFS = <<>> /\ installedFiles = <<>> /\ installs = 0 /\ instRet = <<>>

ResolveIdle ==
    /\ pkgs = <<>> /\ atom = <<>> /\ installed = <<>> /\ found = <<>>

CompareIdle ==
    /\ actualV = <<>> /\ requiredV = <<>> /\ compared = <<>>

ParseIdle ==
    /\ versionStr = <<>> /\ parseRet = <<>>

DepIdle ==
    /\ depTokens = <<>> /\ pkgName = <<>> /\ constraint = <<>>

SignIdle ==
    /\ indexFile = <<>> /\ originalIndex = <<>> /\ signer = <<>> /\ signCalls = <<>> /\ signRet = <<>>

SplitIdle ==
    /\ apkSource = <<>> /\ maxStreams = <<>> /\ splitPc = <<>> /\ srcPos = <<>> /\ gzi = <<>> /\ streamId = <<>> /\ maxStreamsReached = <<>> /\ totalSize = <<>> /\ gzipStreams = <<>> /\ streamFiles = <<>> /\ splitRet = <<>> /\ tempDir = <<>>

TarfsIdle ==
    /\ tarfile = <<>> /\ handleIsReaderAt = <<>> /\ tfsFiles = <<>> /\ tfsIndex = <<>> /\ fileH = <<>> /\ tfRet = <<>> /\ readSoFar = <<>> /\ onlyReads = <<>> /\ tfOps = <<>>

EtagIdle ==
    /\ etagHeader = <<>> /\ etagCacheFile = <<>> /\ etagPc = <<>> /\ etagFinal = <<>> /\ etagDirs = <<>> /\ etagFiles = <<>> /\ etagRet = <<>>

griOthers == <<cacheVars, pathVars, installVars, resolveVars, compareVars, parseVars, depVars, signVars, splitVars, tarfsVars, etagVars>>

cacheOthers == <<griVars, pathVars, installVars, resolveVars, compareVars, parseVars, depVars, signVars, splitVars, tarfsVars, etagVars>>

pathOthers == <<griVars, cacheVars, installVars, resolveVars, compareVars, parseVars, depVars, signVars, splitVars, tarfsVars, etagVars>>

installOthers == <<griVars, cacheVars, pathVars, resolveVars, compareVars, parseVars, depVars, signVars, splitVars, tarfsVars, etagVars>>

resolveOthers == <<griVars, cacheVars, pathVars, installVars, compareVars, parseVars, depVars, signVars, splitVars, tarfsVars, etagVars>>

compareOthers == <<griVars, cacheVars, pathVars, installVars, resolveVars, parseVars, depVars, signVars, splitVars, tarfsVars, etagVars>>

parseOthers == <<griVars, cacheVars, pathVars, installVars, resolveVars, compareVars, depVars, signVars, splitVars, tarfsVars, etagVars>>

depOthers == <<griVars, cacheVars, pathVars, installVars, resolveVars, compareVars, parseVars, signVars, splitVars, tarfsVars, etagVars>>

signOthers == <<griVars, cacheVars, pathVars, installVars, resolveVars, compareVars, parseVars, depVars, splitVars, tarfsVars, etagVars>>

splitOthers == <<griVars, cacheVars, pathVars, installVars, resolveVars, compareVars, parseVars, depVars, signVars, tarfsVars, etagVars>>

tarfsOthers == <<griVars, cacheVars, pathVars, installVars, resolveVars, compareVars, parseVars, depVars, signVars, splitVars, etagVars>>

etagOthers == <<griVars, cacheVars, pathVars, installVars, resolveVars, compareVars, parseVars, depVars, signVars, splitVars, tarfsVars>>

-----------------------------------------------------------------------------
(* Generic helpers *)

Range(s) == {s[i] : i \in 1..Len(s)}

SeqsUpTo(S, n) == UNION {[1..k -> S] : k \in 0..n}

IsPrefixSeq(p, s) == Len(p) <= Len(s) /\ SubSeq(s, 1, Len(p)) = p

IsSuffixSeq(p, s) == Len(p) <= Len(s) /\ SubSeq(s, Len(s) - Len(p) + 1, Len(s)) = p

-----------------------------------------------------------------------------
(***************************************************************************)
(* Repository index loading and signature verification.                    *)
(*                                                                         *)
(* The bytes of an index file are a sequence of gzip members; a member is  *)
(* the tar it decompresses to, a sequence of entries [name, body].  A file *)
(* name is the sequence of its dot-separated tokens, so ".SIGN.RSA.k1.rsa  *)
(* .pub" is <<"", "SIGN", "RSA", "k1", "rsa", "pub">>.  An entry body is   *)
(* [by, over, data]: read as an RSA signature it is one made by the key    *)
(* pair `by` over the digest `over`; read as text it is `data`.            *)
(*                                                                         *)
(* RSA and SHA1 are modelled symbolically: a digest is the hashed data     *)
(* itself under a tag, a signature names the key pair that made it and the *)
(* digest it was made over, and it verifies under exactly that public key. *)
(***************************************************************************)

\* Bound: the number of repository lines given to one call.
MaxRepos == 2

PubKeys == {"K1", "K2"}

KeyNames == {<<"k1", "rsa", "pub">>, <<"k2", "rsa", "pub">>}

\* sha1 over data (filters.go HashData): collision-free by assumption.
HashData(data) == <<"sha1", data>>

\* An index payload member: a tar holding DESCRIPTION and APKINDEX.
PayloadMember(id) ==
    <<[name |-> <<"DESCRIPTION">>, body |-> [by |-> "nobody", over |-> <<>>, data |-> "desc"]],
      [name |-> <<"APKINDEX">>, body |-> [by |-> "nobody", over |-> <<>>, data |-> id]]>>

Payloads == {"idxA", "idxB", "idxBad"}

\* The signature a private key produces over a digest (filters.go Sign).
RSASign(key, digest) == [by |-> key, over |-> digest, data |-> ""]

GarbageSignature == [by |-> "nobody", over |-> <<>>, data |-> ""]

\* A signature member: a tar holding one entry, the signature.
SignatureMember(entryName, sig) == <<[name |-> entryName, body |-> sig]>>

SignEntryName(keyName) == <<"", "SIGN", "RSA">> \o keyName

\* rsa.VerifyPKCS1v15 behind Verify: nil error iff the key is a well-formed RSA
\* public key, the signature was made by its private half, over this digest.
RSAVerifySHA1Digest(digest, signature, keyData) ==
    /\ keyData \in PubKeys
    /\ signature.by = keyData
    /\ signature.over = digest

\* signatureFileRegex = ^\.SIGN\.RSA\.(.*\.rsa\.pub)$ ; the result is the
\* submatch list: <<>> when the name does not match, else <<name, group 1>>.
signatureFileRegex(name) ==
    IF /\ Len(name) >= 6
       /\ SubSeq(name, 1, 3) = <<"", "SIGN", "RSA">>
       /\ IsSuffixSeq(<<"rsa", "pub">>, name)
    THEN <<name, SubSeq(name, 4, Len(name))>>
    ELSE <<>>

\* repository.IndexFromArchive: reads all members as one tar stream and parses
\* the APKINDEX entry.  The payload "idxBad" holds records that do not parse.
IndexFromArchive(bytes) ==
    LET entries == IF Len(bytes) = 0 THEN <<>>
                   ELSE bytes[Len(bytes)]
        apkindex == {i \in 1..Len(entries) : entries[i].name = <<"APKINDEX">>}
    IN  IF apkindex = {} THEN [ok |-> FALSE, index |-> "none"]
        ELSE LET e == entries[CHOOSE i \in apkindex : TRUE]
             IN  IF e.body.data = "idxBad" THEN [ok |-> FALSE, index |-> "none"]
                 ELSE [ok |-> TRUE, index |-> e.body.data]

SignedFile(keyName, key, signedPayload, payload) ==
    <<SignatureMember(SignEntryName(keyName),
                      RSASign(key, HashData(<<PayloadMember(signedPayload)>>))),
      PayloadMember(payload)>>

K1Name == <<"k1", "rsa", "pub">>
K2Name == <<"k2", "rsa", "pub">>

\* The index files a repository may serve: empty, unsigned, signed by the
\* named key, signed by another key than the named one, signed over another
\* payload than the one that follows, signed but unparseable, an unusable
\* signature, and a signature entry whose name the regex does not match.
IndexFiles ==
    {<<>>, <<PayloadMember("idxA")>>}
    \cup {SignedFile(K1Name, "K1", "idxA", "idxA"),
          SignedFile(K2Name, "K2", "idxB", "idxB"),
          SignedFile(K1Name, "K2", "idxA", "idxA"),
          SignedFile(K1Name, "K1", "idxB", "idxA"),
          SignedFile(K1Name, "K1", "idxBad", "idxBad")}
    \cup {<<SignatureMember(SignEntryName(K1Name), GarbageSignature),
            PayloadMember("idxA")>>}
    \cup {<<SignatureMember(<<"", "SIGN", "RSA", "k1", "pub">>,
                            RSASign("K1", HashData(<<PayloadMember("idxA")>>))),
            PayloadMember("idxA")>>}

\* A repository line, with what fetching its index yields.
\*   pin:    the name after a leading "@" ("" when the line has none)
\*   fields: strings.Fields of the line has at least two parts
\*   scheme: the scheme of the index URL
\*   fetch:  "ok" | "notexist" | "ioerr" (file), "ok" | "404" | "500" | "neterr" (https)
RepoLines ==
    {[pin |-> "", fields |-> TRUE, scheme |-> "https", fetch |-> "ok", bytes |-> f] :
        f \in IndexFiles}
    \cup {[pin |-> "pinA", fields |-> TRUE, scheme |-> "file", fetch |-> "ok",
           bytes |-> SignedFile(K1Name, "K1", "idxA", "idxA")]}
    \cup {[pin |-> "", fields |-> TRUE, scheme |-> "file", fetch |-> o, bytes |-> <<>>] :
        o \in {"notexist", "ioerr"}}
    \cup {[pin |-> "", fields |-> TRUE, scheme |-> "https", fetch |-> o, bytes |-> <<>>] :
        o \in {"404", "500", "neterr"}}
    \cup {[pin |-> "pinA", fields |-> FALSE, scheme |-> "https", fetch |-> "ok", bytes |-> <<>>],
          [pin |-> "", fields |-> TRUE, scheme |-> "ftp", fetch |-> "ok", bytes |-> <<>>]}

KeyMaps ==
    {<<>>,
     [n \in {K1Name} |-> "K1"],
     [n \in {K1Name} |-> "K2"],
     [n \in {K1Name} |-> "malformed"],
     [n \in {K2Name} |-> "K1"],
     [n \in {K1Name, K2Name} |-> IF n = K1Name THEN "K1" ELSE "K2"]}

Keyrings ==
    {[isNil |-> TRUE, m |-> <<>>]} \cup {[isNil |-> FALSE, m |-> f] : f \in KeyMaps}

NoBytes == <<>>

GriInit ==
    /\ repos \in SeqsUpTo(RepoLines, MaxRepos)
    /\ keys \in Keyrings
    /\ ignoreSignatures \in BOOLEAN
    /\ repoIdx = 1
    /\ b = NoBytes
    /\ indexes = <<>>
    /\ griPc = "fetch"
    /\ griRet = [indexes |-> <<>>, err |-> "pending"]

\* The failure that drops the repository and goes on with the next one.
GriFail_DropsRepository(why) ==
    /\ repoIdx' = repoIdx + 1
    /\ griPc' = "fetch"
    /\ b' = NoBytes
    /\ UNCHANGED <<repos, keys, ignoreSignatures, indexes, griRet>>

GriFail(why) ==
    /\ griPc' = "done"
    /\ griRet' = [indexes |-> <<>>, err |-> why]
    /\ UNCHANGED <<repos, keys, ignoreSignatures, repoIdx, b, indexes>>

\* util.go 1196-1277: the pin prefix, the URL and the fetch of one repository.
GriFetch ==
    /\ griPc = "fetch"
    /\ UNCHANGED griOthers
    /\ repoIdx <= Len(repos)
    /\ LET repo == repos[repoIdx] IN
        IF repo.pin # "" /\ ~repo.fields THEN GriFail("invalid repository line")
        ELSE IF repo.scheme = "file" THEN
            CASE repo.fetch = "ok" ->
                    /\ b' = repo.bytes
                    /\ griPc' = "validate"
                    /\ UNCHANGED <<repos, keys, ignoreSignatures, repoIdx, indexes, griRet>>
              [] repo.fetch = "notexist" ->
                    \* continue
                    /\ repoIdx' = repoIdx + 1
                    /\ UNCHANGED <<repos, keys, ignoreSignatures, b, indexes, griPc, griRet>>
              [] OTHER -> GriFail("failed to read repository")
        ELSE IF repo.scheme = "https" THEN
            CASE repo.fetch = "ok" ->
                    /\ b' = repo.bytes
                    /\ griPc' = "validate"
                    /\ UNCHANGED <<repos, keys, ignoreSignatures, repoIdx, indexes, griRet>>
              [] repo.fetch = "404" -> GriFail("repository index not found")
              [] repo.fetch = "500" -> GriFail("unexpected status code")
              [] OTHER -> GriFail("unable to get repository index")
        ELSE GriFail("repository scheme not supported")

\* util.go 1326-1340: the named key first, then every key of the keyring.
\* The first attempt never sets verified to true; the loop decides.
VerifiedByKeyring_NamedKeyTrusted(indexDigest, signature, keyName) ==
    \/ keyName \in DOMAIN keys.m
    \/ \E n \in DOMAIN keys.m : RSAVerifySHA1Digest(indexDigest, signature, keys.m[n])

VerifiedByKeyring(indexDigest, signature, keyName) ==
    LET ok == keyName \in DOMAIN keys.m
        verified0 == FALSE
        verified1 == IF ok /\ ~RSAVerifySHA1Digest(indexDigest, signature, keys.m[keyName])
                     THEN FALSE ELSE verified0
    IN  IF ~verified1
        THEN \E n \in DOMAIN keys.m : RSAVerifySHA1Digest(indexDigest, signature, keys.m[n])
        ELSE TRUE

\* util.go 1279-1352: the signature check, the parse and the append, all of
\* them inside the branch taken when signatures are not ignored.
GriValidate ==
    /\ griPc = "validate"
    /\ UNCHANGED griOthers
    /\ IF ~ignoreSignatures THEN
          IF Len(b) = 0 THEN GriFail("unable to create gzip reader")
          ELSE LET first == b[1]
                   signatureFile == first[1]
                   matches == signatureFileRegex(signatureFile.name)
                   signature == signatureFile.body
                   indexData == SubSeq(b, 2, Len(b))
                   indexDigest == HashData(indexData)
               IN  IF Len(matches) # 2 THEN GriFail("failed to find key name")
                   ELSE IF keys.isNil THEN GriFail("no keys provided")
                   ELSE IF ~VerifiedByKeyring(indexDigest, signature, matches[2])
                        THEN GriFail("no key found to verify signature")
                   ELSE LET parsed == IndexFromArchive(b) IN
                        IF ~parsed.ok THEN GriFail("unable to convert index")
                        ELSE /\ indexes' = Append(indexes,
                                    [name |-> repos[repoIdx].pin,
                                     index |-> parsed.index,
                                     repo |-> repoIdx])
                             /\ repoIdx' = repoIdx + 1
                             /\ griPc' = "fetch"
                             /\ b' = NoBytes
                             /\ UNCHANGED <<repos, keys, ignoreSignatures, griRet>>
       ELSE /\ repoIdx' = repoIdx + 1
            /\ griPc' = "fetch"
            /\ b' = NoBytes
            /\ UNCHANGED <<repos, keys, ignoreSignatures, indexes, griRet>>

\* util.go 1354: return indexes, nil
GriReturn ==
    /\ griPc = "fetch"
    /\ UNCHANGED griOthers
    /\ repoIdx > Len(repos)
    /\ griPc' = "done"
    /\ griRet' = [indexes |-> indexes, err |-> "nil"]
    /\ UNCHANGED <<repos, keys, ignoreSignatures, repoIdx, b, indexes>>

GriNext == GriFetch \/ GriValidate \/ GriReturn

InitIndex == GriInit /\ CacheIdle /\ PathIdle /\ InstallIdle /\ ResolveIdle /\ CompareIdle /\ ParseIdle /\ DepIdle /\ SignIdle /\ SplitIdle /\ TarfsIdle /\ EtagIdle

SpecIndex == InitIndex /\ [][GriNext]_vars

(* ---- Claims about GetRepositoryIndexes ---- *)

\* The repository line was reached by the loop and its index was fetched.
GriFetched(j) ==
    /\ j \in 1..Len(repos)
    /\ repos[j].fetch = "ok"
    /\ repos[j].scheme \in {"file", "https"}
    /\ (repos[j].pin = "" \/ repos[j].fields)
    /\ (j < repoIdx \/ (j = repoIdx /\ griPc \in {"validate", "done"} /\ griRet.err # "invalid repository line"))

\* Some key of the caller's keyring verifies the signature of the first gzip
\* member of the file over the SHA1 of the remaining bytes.
SomeKeyVerifies(file) ==
    /\ Len(file) >= 1
    /\ ~keys.isNil
    /\ \E n \in DOMAIN keys.m :
          /\ keys.m[n] \in PubKeys
          /\ file[1][1].body.by = keys.m[n]
          /\ file[1][1].body.over = <<"sha1", SubSeq(file, 2, Len(file))>>

\* C1: when signatures are not ignored, a NamedIndex is accumulated or returned
\* only for a repository whose signature verifies under some key of the keyring
\* (the named one or any other); and once a fetched index verifies under no key
\* (or the keyring is nil) the call ends in an error returning no index at all.
C1_SignatureGatesIndex ==
    ~ignoreSignatures =>
        /\ \A i \in 1..Len(indexes) : SomeKeyVerifies(repos[indexes[i].repo].bytes)
        /\ \A i \in 1..Len(griRet.indexes) : SomeKeyVerifies(repos[griRet.indexes[i].repo].bytes)
        /\ (griPc = "done" /\ \E j \in 1..Len(repos) :
                GriFetched(j) /\ ~SomeKeyVerifies(repos[j].bytes))
            => (griRet.err # "nil" /\ griRet.indexes = <<>>)

\* C1 witness: a call that verified signatures returned an index whose
\* signature entry names a key that does not verify it while another key does.
C1_Witness ==
    /\ griPc = "done"
    /\ ~ignoreSignatures
    /\ griRet.err = "nil"
    /\ \E i \in 1..Len(griRet.indexes) :
          LET file == repos[griRet.indexes[i].repo].bytes
              named == SubSeq(file[1][1].name, 4, Len(file[1][1].name))
          IN  /\ named \in DOMAIN keys.m
              /\ keys.m[named] # file[1][1].body.by
              /\ SomeKeyVerifies(file)

\* C2: with ignoreSignatures set, a call that returns without error returns a
\* NamedIndex for every repository whose index was fetched and parses.
C2_IgnoreSignaturesStillLoads ==
    (griPc = "done" /\ ignoreSignatures /\ griRet.err = "nil") =>
        \A j \in 1..Len(repos) :
            (GriFetched(j) /\ IndexFromArchive(repos[j].bytes).ok)
                => \E i \in 1..Len(griRet.indexes) : griRet.indexes[i].repo = j

\* The repository line is one whose index the loop fetches.
RepoFetchable(j) ==
    /\ repos[j].fetch = "ok"
    /\ repos[j].scheme \in {"file", "https"}
    /\ (repos[j].pin = "" \/ repos[j].fields)

\* The file passes the signature check and parses.
FileLoads(file) ==
    /\ Len(file) >= 1
    /\ Len(signatureFileRegex(file[1][1].name)) = 2
    /\ SomeKeyVerifies(file)
    /\ IndexFromArchive(file).ok

\* The index of the repository is fetched, and its signature fails to verify
\* or it does not parse.
RepoIndexBad(j) == RepoFetchable(j) /\ ~FileLoads(repos[j].bytes)

RepoIndexGood(j) == RepoFetchable(j) /\ FileLoads(repos[j].bytes)

\* C18 as stated: when one of several repositories has an unparseable index
\* or a signature that fails to verify, only that repository is dropped; the
\* indexes of the other repositories are still loaded and returned.
C18_BadRepositoryDroppedAlone ==
    (/\ griPc = "done"
     /\ ~ignoreSignatures
     /\ Len(repos) >= 2
     /\ \A j \in 1..Len(repos) : RepoFetchable(j)
     /\ \E k \in 1..Len(repos) : RepoIndexBad(k))
    => \A j \in 1..Len(repos) :
          RepoIndexGood(j) => \E i \in 1..Len(griRet.indexes) : griRet.indexes[i].repo = j

\* C18 as the code has it: when one of the repositories has an unparseable
\* index or a signature that fails to verify, the whole call fails: it
\* returns an error and no index, also not the indexes of the repositories
\* that were loaded before.
C18_BadRepositoryFailsCall ==
    (/\ griPc = "done"
     /\ ~ignoreSignatures
     /\ \E k \in 1..Len(repos) : RepoIndexBad(k))
    => (griRet.err # "nil" /\ griRet.indexes = <<>>)

\* C18 happens: the first repository's index was loaded, the second one's
\* does not parse although its signature verifies, and the call returned an
\* error and no index.
C18_Witness ==
    /\ griPc = "done"
    /\ ~ignoreSignatures
    /\ Len(repos) = 2
    /\ RepoIndexGood(1)
    /\ RepoIndexBad(2)
    /\ SomeKeyVerifies(repos[2].bytes)
    /\ Len(indexes) = 1
    /\ griRet.err = "unable to convert index"
    /\ griRet.indexes = <<>>

-----------------------------------------------------------------------------
(***************************************************************************)
(* The cache transport (cache.go).                                         *)
(*                                                                         *)
(* A path under the cache root is the sequence of its segments.  A file    *)
(* holds the chunks written to it so far and its modification time; the    *)
(* body of a response is a sequence of BodyLen chunks, so a file that      *)
(* holds fewer chunks of a body is a partial file.  The request's cache    *)
(* path (the result of cachePathFromURL) is one of CacheFiles.             *)
(*                                                                         *)
(* RoundTrip is split at its system calls and network calls, so that       *)
(* concurrent callers interleave at exactly those points.                  *)
(***************************************************************************)

Procs == {"p1", "p2"}

\* Bound: the number of RoundTrip calls started in one behaviour.
MaxTrips == 2

\* Bound: the last value of the clock.
MaxClock == 1

\* Bound: the number of chunks of a response body.
BodyLen == 2

Etags == {"e1", "e2"}

Contents == {"A", "B"}

Body(c) == [i \in 1..BodyLen |-> <<c, i>>]

FullBodies == {Body(c) : c \in Contents}

\* What os.Open of a directory hands out: a handle whose reads fail.
DirBody == <<<<"EISDIR", 0>>>>

ArchDir == <<"repo", "x86_64">>

IndexCacheFile == ArchDir \o <<"APKINDEX.tar.gz">>

ApkCacheFile == ArchDir \o <<"pkg.apk">>

CacheFiles == {IndexCacheFile, ApkCacheFile}

PathDir(path) == SubSeq(path, 1, Len(path) - 1)

PathBase(path) == path[Len(path)]

PathJoin(dir, name) == Append(dir, name)

\* strings.HasSuffix(cacheFile, "APKINDEX.tar.gz")
HasIndexSuffix(cacheFile) == PathBase(cacheFile) = "APKINDEX.tar.gz"

cacheDirFromFile(cacheFile) ==
    IF HasIndexSuffix(cacheFile)
    THEN PathJoin(PathDir(cacheFile), "APKINDEX")
    ELSE PathDir(cacheFile)

cacheFileFromEtag(cacheFile, etag) ==
    LET cacheDir == IF HasIndexSuffix(cacheFile)
                    THEN PathJoin(PathDir(cacheFile), "APKINDEX")
                    ELSE PathDir(cacheFile)
        ext == IF HasIndexSuffix(cacheFile) THEN ".tar.gz" ELSE ".etag"
    IN  PathJoin(cacheDir, etag \o ext)

\* The Etag header of a response: absent, or a value that may be quoted.
NoEtagHeader == [present |-> FALSE, quoted |-> FALSE, value |-> ""]

EtagHeaders ==
    {NoEtagHeader,
     [present |-> TRUE, quoted |-> TRUE, value |-> ""],
     [present |-> TRUE, quoted |-> TRUE, value |-> "e1"],
     [present |-> TRUE, quoted |-> FALSE, value |-> "e2"]}

\* etagFromResponse: the header value with its quotes trimmed, and whether
\* it is usable.
etagFromResponse(resp) ==
    IF ~resp.etag.present \/ (resp.etag.value = "" /\ ~resp.etag.quoted)
    THEN [etag |-> "", ok |-> FALSE]
    ELSE [etag |-> resp.etag.value, ok |-> resp.etag.value # ""]

\* What the wrapped client may answer: a transport error (status 0), a
\* status other than 200, or 200 with some Etag header and (for GET) a body.
HeadResponses ==
    {[status |-> 0, etag |-> NoEtagHeader, body |-> <<>>],
     [status |-> 404, etag |-> NoEtagHeader, body |-> <<>>]}
    \cup {[status |-> 200, etag |-> h, body |-> <<>>] : h \in EtagHeaders}

\* The origin's content is named by its ETag: "e2" is content B, and what is
\* served under "e1" or without a usable ETag is content A.
ContentOf(h) == IF h.value = "e2" THEN "B" ELSE "A"

GetResponses ==
    {[status |-> 0, etag |-> NoEtagHeader, body |-> <<>>],
     [status |-> 404, etag |-> NoEtagHeader, body |-> <<>>]}
    \cup {[status |-> 200, etag |-> h, body |-> Body(ContentOf(h))] : h \in EtagHeaders}

NoResp == [status |-> 0, etag |-> NoEtagHeader, body |-> <<>>]

\* The names os.CreateTemp(dir, "*.tmp") may pick.
TmpNames == {ToString(n) \o ".tmp" : n \in 1..MaxTrips}

IsTmpName(name) == name \in TmpNames

\* os.ReadDir returns the entries sorted by file name.
SortedNames ==
    [n \in 1..MaxTrips |-> ToString(n) \o ".tmp"]
    \o <<"APKINDEX", "e1.etag", "e1.tar.gz", "e2.etag", "e2.tar.gz", "pkg.apk">>

NameRank(name) == CHOOSE i \in 1..Len(SortedNames) : SortedNames[i] = name

\* The names of the entries of a directory, files and subdirectories.
NamesIn(dir) ==
    {PathBase(f) : f \in {g \in DOMAIN fsys : PathDir(g) = dir}}
    \cup {PathBase(d) : d \in {g \in DOMAIN dirs : Len(g) > 0 /\ PathDir(g) = dir}}

RECURSIVE SortNames(_)
SortNames(S) ==
    IF S = {} THEN <<>>
    ELSE LET first == CHOOSE x \in S : \A y \in S : NameRank(x) <= NameRank(y)
         IN  <<first>> \o SortNames(S \ {first})

ReadDir(dir) == SortNames(NamesIn(dir))

\* fs.DirEntry.Info of an entry of dir: its modification time now.
ModTime(dir, name) ==
    IF PathJoin(dir, name) \in DOMAIN fsys THEN fsys[PathJoin(dir, name)].mtime
    ELSE dirs[PathJoin(dir, name)]

EntryExists(dir, name) ==
    PathJoin(dir, name) \in DOMAIN fsys \/ PathJoin(dir, name) \in DOMAIN dirs

\* cache.go 95-109: newest starts as des[0] and moves to a later entry only
\* when that entry's ModTime is strictly After.
RECURSIVE NewestFrom(_, _, _, _)
NewestFrom(dir, des, i, newest) ==
    IF i > Len(des) THEN newest
    ELSE NewestFrom(dir, des, i + 1,
                    IF ModTime(dir, des[i]) > ModTime(dir, newest) THEN des[i] ELSE newest)

Newest_First(dir, des) == des[1]

Newest(dir, des) == NewestFrom(dir, des, 2, des[1])

NoOut == [kind |-> "none", status |-> 0, body |-> <<>>, from |-> <<>>]

ErrOut == [kind |-> "error", status |-> 0, body |-> <<>>, from |-> <<>>]

\* A response served from a cache file: 200 with the opened file as its body.
CacheOut(path, content) == [kind |-> "cache", status |-> 200, body |-> content, from |-> path]

\* The wrapped client's response (or error) handed back unchanged.
OriginOut(r) == [kind |-> "origin", status |-> r.status, body |-> r.body, from |-> <<>>]

\* The process died inside RoundTrip: nothing is returned.
CrashedOut == [kind |-> "crashed", status |-> 0, body |-> <<>>, from |-> <<>>]

\* No HEAD was sent (a transport error is status 0).
NoHead == 0 - 1

TpIdle ==
    [pc |-> "idle", offline |-> FALSE, etagRequired |-> FALSE, cacheFile |-> <<>>,
     net |-> <<>>, initialEtag |-> "", resp |-> NoResp, finalFile |-> <<>>,
     tmp |-> <<>>, des |-> <<>>, newest |-> "", listed |-> <<>>, missed |-> FALSE,
     headStatus |-> NoHead, out |-> NoOut]

\* The files of a directory as a map name -> file.
Listing(dir) ==
    [name \in NamesIn(dir) |->
        IF PathJoin(dir, name) \in DOMAIN fsys
        THEN fsys[PathJoin(dir, name)]
        ELSE [content |-> DirBody, mtime |-> dirs[PathJoin(dir, name)]]]

\* The directory and its ancestors.
Ancestors(dir) == {SubSeq(dir, 1, k) : k \in 0..Len(dir)}

\* A cache that was used earlier: the index was published under the ETag "e1".
IndexedFsys ==
    [f \in {cacheFileFromEtag(IndexCacheFile, "e1")} |-> [content |-> Body("A"), mtime |-> 0]]

\* A cache that was warmed earlier: the index was published, and the package
\* file is at its cache path (written by the package cache, outside this
\* transport).
WarmFsys ==
    [f \in {ApkCacheFile, cacheFileFromEtag(IndexCacheFile, "e1")} |->
        [content |-> Body("A"), mtime |-> 0]]

WarmDirs == [d \in Ancestors(cacheDirFromFile(IndexCacheFile)) |-> 0]

ColdDirs == [d \in {<<>>} |-> 0]

CacheInit ==
    /\ \/ fsys = <<>> /\ dirs = ColdDirs
       \/ fsys = IndexedFsys /\ dirs = WarmDirs
       \/ fsys = WarmFsys /\ dirs = WarmDirs
    /\ now = 0
    /\ trips = 0
    /\ tp = [p \in Procs |-> TpIdle]

\* RoundTrip returns: its locals are gone; what stays is what was asked, what
\* went over the network (with the status of the HEAD's response), what the
\* offline branch listed and chose, and the result.
ReturnFrom(p, call, out, net, missed) ==
    tp' = [tp EXCEPT ![p] = [TpIdle EXCEPT !.pc = "done", !.out = out, !.net = net,
                                           !.missed = missed,
                                           !.headStatus = call.headStatus,
                                           !.offline = call.offline,
                                           !.etagRequired = call.etagRequired,
                                           !.cacheFile = call.cacheFile,
                                           !.listed = call.listed,
                                           !.newest = call.newest]]

Done(p, out) == ReturnFrom(p, tp[p], out, tp[p].net, tp[p].missed)

\* RoundTrip is called on a transport of some configuration with a request
\* whose cache path is cacheFile.
Call(offline, etagRequired, cacheFile) ==
    [TpIdle EXCEPT !.pc = "roundtrip", !.offline = offline,
                   !.etagRequired = etagRequired, !.cacheFile = cacheFile]

CanCall(p) ==
    /\ tp[p].pc \in {"idle", "done"}
    /\ trips < MaxTrips

\* cache.go 75: on a miss the request goes to the wrapped client and its
\* response is returned as it is; nothing is written under the cache root.
EtagFreeMissFsys_Saved(cacheFile, r) ==
    IF r.status = 200
    THEN [f \in DOMAIN fsys \cup {cacheFile} |->
            IF f = cacheFile THEN [content |-> r.body, mtime |-> now] ELSE fsys[f]]
    ELSE fsys

EtagFreeMissFsys(cacheFile, r) == fsys

\* cache.go 72: only an offline transport fails on a miss.
FailsOnMiss_Never(offline) == FALSE

FailsOnMiss(offline) == offline

\* cache.go 65-82: RoundTrip in ETag-free mode.
EtagFree(p) ==
    /\ CanCall(p)
    /\ trips' = trips + 1
    /\ \E offline \in BOOLEAN :
        LET call == Call(offline, FALSE, ApkCacheFile) IN
        IF call.cacheFile \in DOMAIN fsys
        THEN /\ ReturnFrom(p, call, CacheOut(call.cacheFile, fsys[call.cacheFile].content),
                           <<>>, FALSE)
             /\ UNCHANGED fsys
        ELSE IF FailsOnMiss(call.offline)
        THEN /\ ReturnFrom(p, call, ErrOut, <<>>, TRUE)
             /\ UNCHANGED fsys
        ELSE \E r \in GetResponses :
             /\ ReturnFrom(p, call, OriginOut(r), <<"GET">>, TRUE)
             /\ fsys' = EtagFreeMissFsys(call.cacheFile, r)
    /\ UNCHANGED <<dirs, now>>
    /\ UNCHANGED cacheOthers

\* cache.go 84-93: RoundTrip offline in ETag-required mode: list the ETag
\* directory.
OfflineReadDir(p) ==
    /\ CanCall(p)
    /\ trips' = trips + 1
    /\ \E cacheFile \in CacheFiles :
        LET call == Call(TRUE, TRUE, cacheFile)
            cacheDir == cacheDirFromFile(cacheFile)
        IN  IF cacheDir \notin DOMAIN dirs
            THEN ReturnFrom(p, call, ErrOut, <<>>, TRUE)
            ELSE LET des == ReadDir(cacheDir) IN
                 IF Len(des) = 0
                 THEN ReturnFrom(p, call, ErrOut, <<>>, TRUE)
                 ELSE tp' = [tp EXCEPT ![p] = [call EXCEPT !.pc = "info", !.des = des,
                                                           !.listed = Listing(cacheDir)]]
    /\ UNCHANGED <<fsys, dirs, now>>
    /\ UNCHANGED cacheOthers

\* cache.go 95-109: stat the listed entries and keep the newest.  An entry
\* that is gone by now (a staging file that was renamed) fails its Info.
OfflineInfo(p) ==
    /\ tp[p].pc = "info"
    /\ LET cacheDir == cacheDirFromFile(tp[p].cacheFile) IN
        IF \E i \in 1..Len(tp[p].des) : ~EntryExists(cacheDir, tp[p].des[i])
        THEN Done(p, ErrOut)
        ELSE tp' = [tp EXCEPT ![p].pc = "open", ![p].newest = Newest(cacheDir, tp[p].des)]
    /\ UNCHANGED <<fsys, dirs, now, trips>>
    /\ UNCHANGED cacheOthers

\* cache.go 111-120: open the newest entry and serve it.
OfflineOpen(p) ==
    /\ tp[p].pc = "open"
    /\ LET path == PathJoin(cacheDirFromFile(tp[p].cacheFile), tp[p].newest) IN
        IF path \in DOMAIN fsys THEN Done(p, CacheOut(path, fsys[path].content))
        ELSE IF path \in DOMAIN dirs THEN Done(p, CacheOut(path, DirBody))
        ELSE Done(p, ErrOut)
    /\ UNCHANGED <<fsys, dirs, now, trips>>
    /\ UNCHANGED cacheOthers

HeadRequest_GetsAfterFailedHead(p) ==
    /\ CanCall(p)
    /\ trips' = trips + 1
    /\ \E cacheFile \in CacheFiles, r \in HeadResponses :
        LET call == [Call(FALSE, TRUE, cacheFile) EXCEPT !.headStatus = r.status] IN
        IF r.status # 200 \/ ~etagFromResponse(r).ok
        THEN \E g \in GetResponses :
                ReturnFrom(p, call, OriginOut(g), <<"HEAD", "GET">>, FALSE)
        ELSE LET initialEtag == etagFromResponse(r).etag
                 etagFile == cacheFileFromEtag(cacheFile, initialEtag)
             IN  IF etagFile \in DOMAIN fsys
                 THEN ReturnFrom(p, call, CacheOut(etagFile, fsys[etagFile].content),
                                 <<"HEAD">>, FALSE)
                 ELSE tp' = [tp EXCEPT ![p] = [call EXCEPT !.pc = "get", !.net = <<"HEAD">>,
                                                           !.initialEtag = initialEtag]]
    /\ UNCHANGED <<fsys, dirs, now>>
    /\ UNCHANGED cacheOthers

\* cache.go 123-137, 149-153: RoundTrip online in ETag-required mode: HEAD; an
\* error or a status other than 200 is returned; without a usable ETag the
\* request is sent as it is; else the entry of the HEAD's ETag is opened and
\* served on a hit.
HeadRequest(p) ==
    /\ CanCall(p)
    /\ trips' = trips + 1
    /\ \E cacheFile \in CacheFiles, r \in HeadResponses :
        LET call == [Call(FALSE, TRUE, cacheFile) EXCEPT !.headStatus = r.status] IN
        IF r.status # 200
        THEN ReturnFrom(p, call, OriginOut(r), <<"HEAD">>, FALSE)
        ELSE IF ~etagFromResponse(r).ok
        THEN \E g \in GetResponses :
                ReturnFrom(p, call, OriginOut(g), <<"HEAD", "GET">>, FALSE)
        ELSE LET initialEtag == etagFromResponse(r).etag
                 etagFile == cacheFileFromEtag(cacheFile, initialEtag)
             IN  IF etagFile \in DOMAIN fsys
                 THEN ReturnFrom(p, call, CacheOut(etagFile, fsys[etagFile].content),
                                 <<"HEAD">>, FALSE)
                 ELSE tp' = [tp EXCEPT ![p] = [call EXCEPT !.pc = "get", !.net = <<"HEAD">>,
                                                           !.initialEtag = initialEtag]]
    /\ UNCHANGED <<fsys, dirs, now>>
    /\ UNCHANGED cacheOthers

\* os.MkdirAll(cacheDir)
MkdirAll(cacheDir) ==
    [d \in DOMAIN dirs \cup Ancestors(cacheDir) |-> IF d \in DOMAIN dirs THEN dirs[d] ELSE now]

GetRequest_UsesHeadEtag(p) ==
    /\ tp[p].pc = "get"
    /\ \E r \in GetResponses :
        IF r.status # 200
        THEN /\ ReturnFrom(p, tp[p], OriginOut(r), Append(tp[p].net, "GET"), FALSE)
             /\ UNCHANGED dirs
        ELSE IF ~etagFromResponse(r).ok
        THEN /\ ReturnFrom(p, tp[p], ErrOut, Append(tp[p].net, "GET"), FALSE)
             /\ UNCHANGED dirs
        ELSE LET finalFile == cacheFileFromEtag(tp[p].cacheFile, tp[p].initialEtag) IN
             /\ tp' = [tp EXCEPT ![p].pc = "createTemp", ![p].net = Append(@, "GET"),
                                 ![p].resp = r, ![p].finalFile = finalFile]
             /\ dirs' = MkdirAll(PathDir(finalFile))
    /\ UNCHANGED <<fsys, now, trips>>
    /\ UNCHANGED cacheOthers

\* cache.go 193-206 with the placer of 138-147: GET; an error or a status
\* other than 200 is returned; the final name comes from the GET's ETag, and
\* its directory is made.
GetRequest(p) ==
    /\ tp[p].pc = "get"
    /\ \E r \in GetResponses :
        IF r.status # 200
        THEN /\ ReturnFrom(p, tp[p], OriginOut(r), Append(tp[p].net, "GET"), FALSE)
             /\ UNCHANGED dirs
        ELSE IF ~etagFromResponse(r).ok
        THEN /\ ReturnFrom(p, tp[p], ErrOut, Append(tp[p].net, "GET"), FALSE)
             /\ UNCHANGED dirs
        ELSE LET finalFile == cacheFileFromEtag(tp[p].cacheFile, etagFromResponse(r).etag) IN
             /\ tp' = [tp EXCEPT ![p].pc = "createTemp", ![p].net = Append(@, "GET"),
                                 ![p].resp = r, ![p].finalFile = finalFile]
             /\ dirs' = MkdirAll(PathDir(finalFile))
    /\ UNCHANGED <<fsys, now, trips>>
    /\ UNCHANGED cacheOthers

\* cache.go 210: the staging file is a fresh *.tmp next to the final file.
StagingFile_Final(cacheDir, tmpName, finalFile) == finalFile

StagingFile(cacheDir, tmpName, finalFile) == PathJoin(cacheDir, tmpName)

\* cache.go 210-213: os.CreateTemp(cacheDir, "*.tmp"); the name is the first
\* one that is free.
CreateTemp(p) ==
    /\ tp[p].pc = "createTemp"
    /\ LET cacheDir == PathDir(tp[p].finalFile) IN
        \E name \in TmpNames :
            /\ PathJoin(cacheDir, name) \notin DOMAIN fsys
            /\ \A other \in TmpNames :
                  NameRank(other) < NameRank(name) => PathJoin(cacheDir, other) \in DOMAIN fsys
            /\ LET tmp == StagingFile(cacheDir, name, tp[p].finalFile) IN
                /\ fsys' = [f \in DOMAIN fsys \cup {tmp} |->
                              IF f = tmp THEN [content |-> <<>>, mtime |-> now] ELSE fsys[f]]
                /\ tp' = [tp EXCEPT ![p].pc = "copy", ![p].tmp = tmp]
            /\ dirs' = [dirs EXCEPT ![cacheDir] = now]
    /\ UNCHANGED <<now, trips>>
    /\ UNCHANGED cacheOthers

\* cache.go 216: io.Copy(tmp, resp.Body), one chunk of it.  The chunk arrives
\* now or one tick of the clock later, and the write stamps the file.
CopyChunk(p) ==
    /\ tp[p].pc = "copy"
    /\ tp[p].tmp \in DOMAIN fsys
    /\ Len(fsys[tp[p].tmp].content) < Len(tp[p].resp.body)
    /\ \E t \in {now, now + 1} :
        /\ t <= MaxClock
        /\ now' = t
        /\ LET n == Len(fsys[tp[p].tmp].content) IN
            fsys' = [fsys EXCEPT ![tp[p].tmp] =
                        [content |-> Append(@.content, tp[p].resp.body[n + 1]), mtime |-> t]]
    /\ UNCHANGED <<dirs, trips, tp>>
    /\ UNCHANGED cacheOthers

\* cache.go 216-222: the copy fails part-way; the error is returned and the
\* staging file stays where it is.
CopyFail(p) ==
    /\ tp[p].pc = "copy"
    /\ tp[p].tmp \in DOMAIN fsys
    /\ Len(fsys[tp[p].tmp].content) < Len(tp[p].resp.body)
    /\ Done(p, ErrOut)
    /\ UNCHANGED <<fsys, dirs, now, trips>>
    /\ UNCHANGED cacheOthers

\* cache.go 226-228: os.Rename(tmp.Name(), cacheFile)
Rename(p) ==
    /\ tp[p].pc = "copy"
    /\ tp[p].tmp \in DOMAIN fsys
    /\ Len(fsys[tp[p].tmp].content) = Len(tp[p].resp.body)
    /\ fsys' = [f \in (DOMAIN fsys \ {tp[p].tmp}) \cup {tp[p].finalFile} |->
                  IF f = tp[p].finalFile THEN fsys[tp[p].tmp] ELSE fsys[f]]
    /\ dirs' = [dirs EXCEPT ![PathDir(tp[p].finalFile)] = now]
    /\ tp' = [tp EXCEPT ![p].pc = "openFinal"]
    /\ UNCHANGED <<now, trips>>
    /\ UNCHANGED cacheOthers

\* cache.go 231-236: open the cache file by its final name; it becomes the
\* body of the GET's response.
OpenFinal(p) ==
    /\ tp[p].pc = "openFinal"
    /\ IF tp[p].finalFile \in DOMAIN fsys
       THEN Done(p, [kind |-> "fetched", status |-> 200,
                     body |-> fsys[tp[p].finalFile].content, from |-> tp[p].finalFile])
       ELSE Done(p, ErrOut)
    /\ UNCHANGED <<fsys, dirs, now, trips>>
    /\ UNCHANGED cacheOthers

\* The calling process dies between the creation of the staging file and
\* its rename; whatever it wrote stays on disk.
Crash(p) ==
    /\ tp[p].pc = "copy"
    /\ Done(p, CrashedOut)
    /\ UNCHANGED <<fsys, dirs, now, trips>>
    /\ UNCHANGED cacheOthers

CacheNext ==
    \E p \in Procs :
        \/ EtagFree(p)
        \/ OfflineReadDir(p)
        \/ OfflineInfo(p)
        \/ OfflineOpen(p)
        \/ HeadRequest(p)
        \/ GetRequest(p)
        \/ CreateTemp(p)
        \/ CopyChunk(p)
        \/ CopyFail(p)
        \/ Rename(p)
        \/ OpenFinal(p)
        \/ Crash(p)

InitCache == CacheInit /\ GriIdle /\ PathIdle /\ InstallIdle /\ ResolveIdle /\ CompareIdle /\ ParseIdle /\ DepIdle /\ SignIdle /\ SplitIdle /\ TarfsIdle /\ EtagIdle

SpecCache == InitCache /\ [][CacheNext]_vars

\* The paths under which the transport publishes or finds finished files.
FinalPaths == CacheFiles \cup {cacheFileFromEtag(cf, e) : cf \in CacheFiles, e \in Etags}

IsPartial(file) == file.content \notin FullBodies

\* C3: under every interleaving of concurrent fetches, readers that open a
\* cache file by its final name, and a crash between the write to the staging
\* file and its rename, a final cache path is absent or holds the complete
\* body of one response: no file with a final name is partial or mixed, and no
\* response read from a final name is.
C3_FinalPathNeverPartial ==
    /\ \A f \in DOMAIN fsys : ~IsTmpName(PathBase(f)) => fsys[f].content \in FullBodies
    /\ \A p \in Procs :
          (tp[p].out.kind \in {"cache", "fetched"} /\ tp[p].out.from \in FinalPaths)
              => tp[p].out.body \in FullBodies

\* C3 happens: two fetches of the same URL ran; one crashed and left a partial
\* staging file behind, the other published and read the final file.
C3_Witness ==
    \E p \in Procs, q \in Procs :
        /\ tp[p].out.kind = "crashed"
        /\ tp[q].out.kind = "fetched"
        /\ tp[p].cacheFile = tp[q].cacheFile
        /\ tp[q].out.from \in DOMAIN fsys
        /\ \E t \in DOMAIN fsys :
              /\ IsTmpName(PathBase(t))
              /\ PathDir(t) = PathDir(tp[q].out.from)
              /\ Len(fsys[t].content) \in 1..(BodyLen - 1)

\* The step in which process p's RoundTrip, in ETag-free mode and online,
\* misses the cache and gets 200 from the origin.
EtagFreeOnlineMiss200(p) ==
    /\ tp[p].pc \in {"idle", "done"}
    /\ trips' = trips + 1
    /\ tp'[p].pc = "done"
    /\ ~tp'[p].etagRequired
    /\ ~tp'[p].offline
    /\ tp'[p].missed
    /\ tp'[p].cacheFile \notin DOMAIN fsys
    /\ tp'[p].out.status = 200

TmpFilesIn(files, dir) == {f \in DOMAIN files : PathDir(f) = dir /\ IsTmpName(PathBase(f))}

\* C4 as stated: in ETag-free mode, online, with cachePath absent, after a
\* RoundTrip whose GET returns 200 a file exists at cachePath that equals the
\* response body, and no *.tmp file remains in the cache directory.
C4_MissPopulatesCachePath ==
    [][\A p \in Procs :
          EtagFreeOnlineMiss200(p) =>
              /\ tp'[p].cacheFile \in DOMAIN fsys'
              /\ fsys'[tp'[p].cacheFile].content = tp'[p].out.body
              /\ TmpFilesIn(fsys', PathDir(tp'[p].cacheFile)) = {}]_vars

\* C4 as the code has it: in ETag-free mode, online, with cachePath absent, a
\* RoundTrip whose GET returns 200 sends that one GET, returns the origin's
\* response with its complete body, and leaves the cache as it was: cachePath
\* is still absent and no file or directory was created or changed.
C4_MissForwardsAndLeavesCache ==
    [][\A p \in Procs :
          EtagFreeOnlineMiss200(p) =>
              /\ fsys' = fsys
              /\ dirs' = dirs
              /\ tp'[p].cacheFile \notin DOMAIN fsys'
              /\ tp'[p].out.kind = "origin"
              /\ tp'[p].out.body \in FullBodies
              /\ tp'[p].net = <<"GET">>]_vars

\* C4 happens: an ETag-free online RoundTrip missed, got 200 from the origin,
\* and its cache path is absent.
C4_Witness ==
    \E p \in Procs :
        /\ tp[p].pc = "done"
        /\ ~tp[p].etagRequired
        /\ ~tp[p].offline
        /\ tp[p].missed
        /\ tp[p].out.status = 200
        /\ tp[p].out.kind = "origin"
        /\ tp[p].net = <<"GET">>
        /\ tp[p].cacheFile \notin DOMAIN fsys

\* C5: an offline RoundTrip, in ETag-free and in ETag-required mode, never
\* sends a HEAD or a GET to the wrapped client.  It ends by serving a file that
\* was in the cache or by an error; it ends by an error whenever cachePath
\* (ETag-free) or the ETag directory (ETag-required) is missing or empty, and
\* in ETag-free mode only then.
C5_OfflineNeverUsesNetwork ==
    \A p \in Procs :
        tp[p].offline =>
            /\ tp[p].net = <<>>
            /\ tp[p].pc = "done" =>
                /\ tp[p].out.kind \in {"cache", "error"}
                /\ tp[p].missed => tp[p].out.kind = "error"
                /\ (~tp[p].etagRequired /\ tp[p].out.kind = "error") => tp[p].missed
                /\ tp[p].out.kind = "cache" =>
                      IF tp[p].etagRequired
                      THEN /\ PathDir(tp[p].out.from) = cacheDirFromFile(tp[p].cacheFile)
                           /\ PathBase(tp[p].out.from) \in DOMAIN tp[p].listed
                      ELSE tp[p].out.from = tp[p].cacheFile

\* C5 happens: one offline RoundTrip served a cache file in ETag-required
\* mode, another offline RoundTrip, in ETag-free mode, failed on a miss.
C5_Witness ==
    \E p \in Procs, q \in Procs :
        /\ tp[p].offline /\ tp[p].etagRequired /\ tp[p].out.kind = "cache"
        /\ tp[p].net = <<>>
        /\ tp[q].offline /\ ~tp[q].etagRequired /\ tp[q].out.kind = "error" /\ tp[q].missed
        /\ tp[q].net = <<>>

\* The names of the published ETag-addressed entries of a request's ETag
\* directory.
PublishedNames(cacheFile) == {PathBase(cacheFileFromEtag(cacheFile, e)) : e \in Etags}

\* Process p's offline ETag-required RoundTrip served from an ETag directory
\* that held published entries only and has not changed since it was listed.
ServedFromPublished(p) ==
    /\ tp[p].pc = "done"
    /\ tp[p].offline
    /\ tp[p].etagRequired
    /\ tp[p].out.kind = "cache"
    /\ DOMAIN tp[p].listed \subseteq PublishedNames(tp[p].cacheFile)
    /\ cacheDirFromFile(tp[p].cacheFile) \in DOMAIN dirs
    /\ Listing(cacheDirFromFile(tp[p].cacheFile)) = tp[p].listed

-----------------------------------------------------------------------------
(***************************************************************************)
(* The cache path of a URL (cachePathFromURL, cache.go).                   *)
(*                                                                         *)
(* A string is the sequence of its characters, so that strings.HasPrefix   *)
(* and the path functions of path/filepath act on characters as they do    *)
(* in the program.                                                         *)
(***************************************************************************)

\* Bound: the number of segments of a URL's path.
MaxPathSegs == 3

\* strings.Join(elems, sep)
RECURSIVE StringsJoin(_, _)
StringsJoin(elems, sep) ==
    IF Len(elems) = 0 THEN <<>>
    ELSE IF Len(elems) = 1 THEN elems[1]
    ELSE elems[1] \o sep \o StringsJoin(Tail(elems), sep)

\* strings.Split(str, "/")
RECURSIVE SplitSlash(_)
SplitSlash(str) ==
    IF str = <<>> THEN <<<<>>>>
    ELSE LET rest == SplitSlash(Tail(str)) IN
         IF str[1] = "/" THEN <<<<>>>> \o rest
         ELSE <<<<str[1]>> \o rest[1]>> \o Tail(rest)

\* strings.HasPrefix(str, prefix)
HasPrefix(str, prefix) == IsPrefixSeq(prefix, str)

\* The elements Clean keeps: "." and empty elements go, ".." removes the
\* element before it, stays at the front of a relative path and goes at the
\* front of a rooted one.
RECURSIVE CleanElems(_, _, _)
CleanElems(elems, out, rooted) ==
    IF Len(elems) = 0 THEN out
    ELSE LET e == elems[1] IN
         IF e = <<>> \/ e = <<".">> THEN CleanElems(Tail(elems), out, rooted)
         ELSE IF e = <<".", ".">>
         THEN IF Len(out) > 0 /\ out[Len(out)] # <<".", ".">>
              THEN CleanElems(Tail(elems), SubSeq(out, 1, Len(out) - 1), rooted)
              ELSE IF rooted THEN CleanElems(Tail(elems), out, rooted)
              ELSE CleanElems(Tail(elems), Append(out, e), rooted)
         ELSE CleanElems(Tail(elems), Append(out, e), rooted)

\* filepath.Clean(path)
Clean(path) ==
    IF path = <<>> THEN <<".">>
    ELSE LET rooted == path[1] = "/"
             kept == StringsJoin(CleanElems(SplitSlash(path), <<>>, rooted), <<"/">>)
         IN  IF rooted THEN <<"/">> \o kept
             ELSE IF kept = <<>> THEN <<".">> ELSE kept

\* strings.LastIndex(str, "/"), counted from 1; 0 when there is none.
LastSlash(str) ==
    IF \E i \in 1..Len(str) : str[i] = "/"
    THEN CHOOSE i \in 1..Len(str) : str[i] = "/" /\ \A j \in (i + 1)..Len(str) : str[j] # "/"
    ELSE 0

RECURSIVE TrimTrailingSlashes(_)
TrimTrailingSlashes(path) ==
    IF Len(path) > 0 /\ path[Len(path)] = "/"
    THEN TrimTrailingSlashes(SubSeq(path, 1, Len(path) - 1))
    ELSE path

\* filepath.Base(path)
Base(path) ==
    IF path = <<>> THEN <<".">>
    ELSE LET trimmed == TrimTrailingSlashes(path)
             last == SubSeq(trimmed, LastSlash(trimmed) + 1, Len(trimmed))
         IN  IF last = <<>> THEN <<"/">> ELSE last

\* filepath.Dir(path)
Dir(path) == Clean(SubSeq(path, 1, LastSlash(path)))

\* filepath.Join(elems...): the elements from the first non-empty one, joined
\* by "/" and cleaned; "" when all are empty.
RECURSIVE Join(_)
Join(elems) ==
    IF Len(elems) = 0 THEN <<>>
    ELSE IF elems[1] = <<>> THEN Join(Tail(elems))
    ELSE Clean(StringsJoin(elems, <<"/">>))

\* url.QueryEscape of one character: letters, digits and -_.~ stay, the
\* rest is percent-encoded.
EscapeChar(c) ==
    IF c = "/" THEN <<"%", "2", "F">>
    ELSE IF c = ":" THEN <<"%", "3", "A">>
    ELSE <<c>>

\* url.QueryEscape(str)
RECURSIVE QueryEscape(_)
QueryEscape(str) ==
    IF str = <<>> THEN <<>> ELSE EscapeChar(str[1]) \o QueryEscape(Tail(str))

\* (*url.URL).String() of a URL with a scheme, a host and a path only: the
\* scheme and ":", "//" and the host when there is a host, "/" before a path
\* that does not start with one when there is a host, the path.
URLString(url) ==
    (IF url.Scheme # <<>> THEN url.Scheme \o <<":">> ELSE <<>>)
    \o (IF url.Host # <<>> THEN <<"/", "/">> \o url.Host
        ELSE IF url.Scheme # <<>> /\ url.Path # <<>> THEN <<"/", "/">>
        ELSE <<>>)
    \o (IF url.Path # <<>> /\ url.Path[1] # "/" /\ url.Host # <<>> THEN <<"/">> ELSE <<>>)
    \o url.Path

\* The check that the cache file is within the root: cache.go 278.
WithinRoot(cacheFile, cleanroot) == HasPrefix(cacheFile, cleanroot)

\* cachePathFromURL(root, u): cache.go 258-282.
cachePathFromURL(rootArg, url) ==
    LET filename == Base(url.Path)
        archDir == Dir(url.Path)
        dir == Base(archDir)
        repoDir == QueryEscape(URLString([url EXCEPT !.Path = Dir(archDir)]))
        cacheFile == Clean(Join(<<rootArg, repoDir, dir, filename>>))
        cleanroot == Clean(rootArg)
    IN  IF ~WithinRoot(cacheFile, cleanroot)
        THEN [called |-> TRUE, err |-> TRUE, cacheFile |-> <<>>]
        ELSE [called |-> TRUE, err |-> FALSE, cacheFile |-> cacheFile]

Roots == {<<"/", "r", "/", "c">>, <<"/", "r", "/", "c", "/">>}

PathSegs == {<<".", ".">>, <<".">>, <<"a">>, <<"c", "2">>, <<"p">>}

\* The URL paths: up to MaxPathSegs segments, with or without a leading "/".
URLPaths ==
    {StringsJoin(segs, <<"/">>) : segs \in SeqsUpTo(PathSegs, MaxPathSegs)}
    \cup {<<"/">> \o StringsJoin(segs, <<"/">>) : segs \in SeqsUpTo(PathSegs, MaxPathSegs)}

URLs ==
    {[Scheme |-> <<"h", "t", "t", "p", "s">>, Host |-> <<"h">>, Path |-> path] : path \in URLPaths}
    \cup {[Scheme |-> <<>>, Host |-> <<>>, Path |-> path] : path \in URLPaths}

NotCalled == [called |-> FALSE, err |-> FALSE, cacheFile |-> <<>>]

PathInit ==
    /\ root \in Roots
    /\ u \in URLs
    /\ cpRet = NotCalled

CachePath ==
    /\ ~cpRet.called
    /\ cpRet' = cachePathFromURL(root, u)
    /\ UNCHANGED <<root, u>>
    /\ UNCHANGED pathOthers

PathNext == CachePath

InitPath == PathInit /\ GriIdle /\ CacheIdle /\ InstallIdle /\ ResolveIdle /\ CompareIdle /\ ParseIdle /\ DepIdle /\ SignIdle /\ SplitIdle /\ TarfsIdle /\ EtagIdle

SpecPath == InitPath /\ [][PathNext]_vars

\* The directories and the file a path names, from the outermost in.
Components(path) == SelectSeq(SplitSlash(path), LAMBDA e : e # <<>>)

\* C7: for every URL and cache root, cachePathFromURL returns an error or a
\* path that lies inside the root directory component by component: the
\* components of the cleaned root are the first components of the result.
C7_CachePathInsideRoot ==
    (cpRet.called /\ ~cpRet.err) =>
        IsPrefixSeq(Components(Clean(root)), Components(cpRet.cacheFile))

-----------------------------------------------------------------------------
(***************************************************************************)
(* The installer's overlap policy (installAPKFiles, addInstalledPackage).  *)
(*                                                                         *)
(* installAPKFiles applies the entries of a package's data tar to the      *)
(* target filesystem one by one, given the package's origin and replaces;  *)
(* addInstalledPackage records the applied entries against the package.    *)
(* The bodies of these functions are not among the sources; they are       *)
(* modelled from the installer section of the specification, with the      *)
(* arguments the test in install_test.go passes.                           *)
(***************************************************************************)

\* Bound: the number of packages applied in one behaviour.
MaxInstalls == 2

PkgNames == {"first", "second"}

Origins == {"first", "second"}

FileContents == {"hello world", "extra long I am here"}

overwriteFilename == "etc/doublewrite"

otherFilename == "etc/other"

\* The data tars: the regular files of a package in tar order.
EntryLists ==
    {<<[path |-> overwriteFilename, content |-> c]>> : c \in FileContents}
    \cup {<<[path |-> otherFilename, content |-> c], [path |-> overwriteFilename, content |-> d]>> :
            c \in FileContents, d \in FileContents}

\* The packages: replaces is "" or the name of one package.
InstallPackages ==
    [name : PkgNames, origin : Origins, replaces : PkgNames \cup {""}, entries : EntryLists]

\* The overlap check for a regular file whose path exists and is recorded to
\* the package prior: a conflict when the origins differ, replaces does not
\* list the prior package, and the bytes differ.
overlapConflict_IgnoresReplaces(prior, origin, replaces, oldBytes, newBytes) ==
    /\ prior.origin # origin
    /\ oldBytes # newBytes

overlapConflict(prior, origin, replaces, oldBytes, newBytes) ==
    /\ prior.origin # origin
    /\ replaces # prior.name
    /\ oldBytes # newBytes

\* installAPKFiles: apply the entries from the i-th on to the filesystem fs;
\* stop at the first overlap conflict, leaving what was applied before it.
RECURSIVE applyEntries(_, _, _, _, _, _)
applyEntries(entries, i, fs, origin, replaces, applied) ==
    IF i > Len(entries) THEN [fs |-> fs, applied |-> applied, err |-> FALSE]
    ELSE LET e == entries[i] IN
         IF /\ e.path \in DOMAIN fs
            /\ e.path \in DOMAIN installedFiles
            /\ overlapConflict(installedFiles[e.path], origin, replaces, fs[e.path], e.content)
         THEN [fs |-> fs, applied |-> applied, err |-> TRUE]
         ELSE applyEntries(entries, i + 1,
                           [q \in DOMAIN fs \cup {e.path} |->
                               IF q = e.path THEN e.content ELSE fs[q]],
                           origin, replaces, Append(applied, e.path))

installAPKFiles(entries, origin, replaces) ==
    applyEntries(entries, 1, targetFS, origin, replaces, <<>>)

\* addInstalledPackage: the applied paths are recorded against the package.
addInstalledPackage(pkg, headers) ==
    [q \in DOMAIN installedFiles \cup Range(headers) |->
        IF q \in Range(headers) THEN [name |-> pkg.name, origin |-> pkg.origin]
        ELSE installedFiles[q]]

InstallInit ==
    /\ targetFS = <<>>
    /\ installedFiles = <<>>
    /\ installs = 0
    /\ instRet = [pkg |-> <<>>, applied |-> <<>>, err |-> FALSE]

\* One package of the plan is installed: its files are applied, and when
\* that succeeds the package is recorded.
InstallPackage ==
    /\ installs < MaxInstalls
    /\ installs' = installs + 1
    /\ \E pkg \in InstallPackages :
        LET r == installAPKFiles(pkg.entries, pkg.origin, pkg.replaces) IN
        /\ targetFS' = r.fs
        /\ installedFiles' = IF r.err THEN installedFiles
                             ELSE addInstalledPackage(pkg, r.applied)
        /\ instRet' = [pkg |-> pkg, applied |-> r.applied, err |-> r.err]
    /\ UNCHANGED installOthers

InstallNext == InstallPackage

InitInstall == InstallInit /\ GriIdle /\ CacheIdle /\ PathIdle /\ ResolveIdle /\ CompareIdle /\ ParseIdle /\ DepIdle /\ SignIdle /\ SplitIdle /\ TarfsIdle /\ EtagIdle

SpecInstall == InitInstall /\ [][InstallNext]_vars

\* The i-th entry of pkg goes onto a path that exists and is recorded in the
\* InstalledDB for a prior package.
OntoRecordedPath(pkg, i) ==
    /\ pkg.entries[i].path \in DOMAIN installedFiles
    /\ pkg.entries[i].path \in DOMAIN targetFS

\* The three conditions of the claim for the i-th entry of pkg.
DiffersThreeWays(pkg, i) ==
    LET e == pkg.entries[i] IN
    /\ installedFiles[e.path].origin # pkg.origin
    /\ pkg.replaces # installedFiles[e.path].name
    /\ targetFS[e.path] # e.content

\* C8: installing a regular file onto a path recorded in the InstalledDB for
\* a prior package fails with an overlap conflict and leaves the file's bytes
\* unchanged exactly when the origins differ, replaces does not list the prior
\* package and the content differs; in each other case the file is installed
\* and holds the new package's bytes.  (An entry is installed when the entries
\* before it in the same package did not conflict.)
C8_OverlapPolicy ==
    [][installs' = installs + 1 =>
        LET pkg == instRet'.pkg IN
        \A i \in 1..Len(pkg.entries) :
            LET e == pkg.entries[i] IN
            (/\ OntoRecordedPath(pkg, i)
             /\ \A j \in 1..(i - 1) : ~(OntoRecordedPath(pkg, j) /\ DiffersThreeWays(pkg, j)))
            => IF DiffersThreeWays(pkg, i)
               THEN /\ instRet'.err
                    /\ targetFS'[e.path] = targetFS[e.path]
                    /\ e.path \notin Range(instRet'.applied)
               ELSE /\ targetFS'[e.path] = e.content
                    /\ e.path \in Range(instRet'.applied)
                    /\ i = Len(pkg.entries) => ~instRet'.err]_vars

\* C8 happens: a package of another origin, without replaces, brought other
\* bytes for a recorded path; the install failed and the file kept the bytes
\* of the package that is recorded for it.
C8_Witness ==
    /\ instRet.err
    /\ overwriteFilename \in DOMAIN installedFiles
    /\ installedFiles[overwriteFilename].origin # instRet.pkg.origin
    /\ instRet.pkg.replaces = ""
    /\ \E i \in 1..Len(instRet.pkg.entries) :
          /\ instRet.pkg.entries[i].path = overwriteFilename
          /\ instRet.pkg.entries[i].content # targetFS[overwriteFilename]

-----------------------------------------------------------------------------
(***************************************************************************)
(* The resolver's choice among the candidates of one package name          *)
(* (filterPackages followed by sortPackages).                              *)
(*                                                                         *)
(* Compare is the version order of version.go.  The bodies of              *)
(* filterPackages and sortPackages are not among the sources; they are     *)
(* modelled from the resolver section of the specification and from what   *)
(* TestResolveVersion expects of them: a package of a named repository is  *)
(* a candidate only for an atom that names that repository, or when it is  *)
(* the installed package.                                                  *)
(***************************************************************************)

\* Bound: the number of candidates given to one call.
MaxCandidates == 3

packageVersionPreModifierNone == 0

packageVersionPreModifierMax == 1000

greater == 1

equal == 0

less == 0 - 1

\* The outcome of comparing the numbers that both versions have:
\* version.go 198-205.
RECURSIVE CompareNumbers(_, _, _)
CompareNumbers(actual, required, i) ==
    IF i > Len(actual) \/ i > Len(required) THEN equal
    ELSE IF actual[i] > required[i] THEN greater
    ELSE IF actual[i] < required[i] THEN less
    ELSE CompareNumbers(actual, required, i + 1)

\* The comparison without its `less` branch.
CompareInt_NeverLess(x, y) == IF x > y THEN greater ELSE equal

\* The comparison of two integers in the three-way form Compare uses.
CompareInt(x, y) == IF x > y THEN greater ELSE IF x < y THEN less ELSE equal

\* The pre-suffix without the None -> Max step.
PreSuffixRank_Raw(preSuffix) == preSuffix

\* The pre-suffix as Compare ranks it: none ranks above every pre-release.
PreSuffixRank(preSuffix) ==
    IF preSuffix = packageVersionPreModifierNone THEN packageVersionPreModifierMax
    ELSE preSuffix

\* The first of the comparisons that is not equal.
RECURSIVE FirstDecided(_)
FirstDecided(cmps) ==
    IF Len(cmps) = 0 THEN equal
    ELSE IF cmps[1] # equal THEN cmps[1]
    ELSE FirstDecided(Tail(cmps))

Compare_IgnoresRevision(actual, required) ==
    FirstDecided(<<
        CompareNumbers(actual.numbers, required.numbers, 1),
        CompareInt(Len(actual.numbers), Len(required.numbers)),
        CompareInt(actual.letter, required.letter),
        CompareInt(PreSuffixRank(actual.preSuffix), PreSuffixRank(required.preSuffix)),
        CompareInt(actual.preSuffixNumber, required.preSuffixNumber),
        CompareInt(actual.postSuffix, required.postSuffix),
        CompareInt(actual.postSuffixNumber, required.postSuffixNumber)>>)

\* Compare(actual, required): version.go 197-273.
Compare(actual, required) ==
    FirstDecided(<<
        CompareNumbers(actual.numbers, required.numbers, 1),
        CompareInt(Len(actual.numbers), Len(required.numbers)),
        CompareInt(actual.letter, required.letter),
        CompareInt(PreSuffixRank(actual.preSuffix), PreSuffixRank(required.preSuffix)),
        CompareInt(actual.preSuffixNumber, required.preSuffixNumber),
        CompareInt(actual.postSuffix, required.postSuffix),
        CompareInt(actual.postSuffixNumber, required.postSuffixNumber),
        CompareInt(actual.revision, required.revision)>>)

\* The Version of a string of dotted numbers and a revision, "1.2.3-r0".
NumbersRevision(numbers, revision) ==
    [numbers |-> numbers, letter |-> 0, preSuffix |-> packageVersionPreModifierNone,
     preSuffixNumber |-> 0, postSuffix |-> 0, postSuffixNumber |-> 0, revision |-> revision]

\* testNamedPackageFromVersionAndPin(version, pin), at a position of the
\* candidate list.
testNamedPackageFromVersionAndPin(pos, version, pin) ==
    [name |-> "package", pos |-> pos, version |-> version, pinnedName |-> pin,
     providerPriority |-> 0]

\* The candidates of TestResolveVersion, and one more from a second named
\* repository.
testPkgs ==
    <<testNamedPackageFromVersionAndPin(1, NumbersRevision(<<1, 2, 3>>, 0), ""),
      testNamedPackageFromVersionAndPin(2, NumbersRevision(<<1, 3, 6>>, 0), ""),
      testNamedPackageFromVersionAndPin(3, NumbersRevision(<<1, 2, 8>>, 0), ""),
      testNamedPackageFromVersionAndPin(4, NumbersRevision(<<1, 7, 1>>, 0), ""),
      testNamedPackageFromVersionAndPin(5, NumbersRevision(<<1, 7, 1>>, 1), ""),
      testNamedPackageFromVersionAndPin(6, NumbersRevision(<<2, 0, 6>>, 0), ""),
      testNamedPackageFromVersionAndPin(7, NumbersRevision(<<2, 1, 0>>, 0), "pinA"),
      testNamedPackageFromVersionAndPin(8, NumbersRevision(<<2, 2, 0>>, 0), "pinB")>>

\* The versions the atoms of TestResolveVersion ask for.
testVersions ==
    {NumbersRevision(<<1, 2, 3>>, 0), NumbersRevision(<<1, 2, 3>>, 10000),
     NumbersRevision(<<2, 0, 0>>, 0), NumbersRevision(<<3, 0, 0>>, 0),
     NumbersRevision(<<2, 1, 0>>, 0), NumbersRevision(<<1, 6>>, 0),
     NumbersRevision(<<1, 7>>, 0), NumbersRevision(<<1, 7, 1>>, 0),
     NumbersRevision(<<1, 7, 1>>, 2)}

NoVersion == NumbersRevision(<<>>, 0)

NoPackage == testNamedPackageFromVersionAndPin(0, NoVersion, "")

versionDependencies ==
    {"versionEqual", "versionGreater", "versionLess", "versionGreaterEqual",
     "versionLessEqual", "versionTilde"}

Pins == {"", "pinA", "pinB"}

Atoms ==
    [version : {NoVersion}, compare : {"versionAny"}, pin : Pins]
    \cup [version : testVersions, compare : versionDependencies, pin : Pins]

\* Whether the version actual satisfies (compare, required).
satisfies(actual, compare, required) ==
    CASE compare = "versionAny" -> TRUE
      [] compare = "versionEqual" -> Compare(actual, required) = equal
      [] compare = "versionGreater" -> Compare(actual, required) = greater
      [] compare = "versionLess" -> Compare(actual, required) = less
      [] compare = "versionGreaterEqual" -> Compare(actual, required) \in {greater, equal}
      [] compare = "versionLessEqual" -> Compare(actual, required) \in {less, equal}
      [] compare = "versionTilde" ->
            /\ IsPrefixSeq(required.numbers, actual.numbers)
            /\ Compare(actual, required) \in {greater, equal}

\* Whether the package may be chosen for an atom with this pin: it comes
\* from the repository the atom names (from an unnamed one when the atom
\* names none), or it is the installed package.
allowedByPin_AnyUnnamed(p, pin, inst) ==
    p.pinnedName = "" \/ p.pinnedName = pin \/ p = inst

\* The filter with the pin as a preference only: every candidate passes, and
\* the pin matters to the sort alone.
allowedByPin_PreferOnly(p, pin, inst) == TRUE

allowedByPin(p, pin, inst) == p.pinnedName = pin \/ p = inst

\* filterPackages(pkgs, withVersion, withPreferPin, withInstalledPackage)
filterPackages(candidates, version, compare, pin, inst) ==
    SelectSeq(candidates,
              LAMBDA p : /\ allowedByPin(p, pin, inst)
                         /\ satisfies(p.version, compare, version))

\* The order of sortPackages: the installed package first, then a package of
\* the atom's pinned repository, then the higher provider priority, then the
\* higher version, then the earlier position.
sortsBefore(x, y, inst, pin) ==
    LET keyOf(p) == <<IF p = inst THEN 0 ELSE 1,
                      IF pin # "" /\ p.pinnedName = pin THEN 0 ELSE 1,
                      0 - p.providerPriority>>
        byKey == FirstDecided(<<CompareInt(keyOf(y)[1], keyOf(x)[1]),
                                CompareInt(keyOf(y)[2], keyOf(x)[2]),
                                CompareInt(keyOf(y)[3], keyOf(x)[3]),
                                Compare(x.version, y.version),
                                CompareInt(y.pos, x.pos)>>)
    IN  byKey = greater

\* The sorted list with x put after the elements that do not sort after it.
RECURSIVE insertSorted(_, _, _, _)
insertSorted(x, sorted, inst, pin) ==
    IF Len(sorted) = 0 THEN <<x>>
    ELSE IF sortsBefore(x, sorted[1], inst, pin) THEN <<x>> \o sorted
    ELSE <<sorted[1]>> \o insertSorted(x, Tail(sorted), inst, pin)

\* sortPackages(found, nil, "", existing, pin): a stable sort.
RECURSIVE sortPackages(_, _, _)
sortPackages(list, inst, pin) ==
    IF Len(list) = 0 THEN <<>>
    ELSE insertSorted(list[Len(list)],
                      sortPackages(SubSeq(list, 1, Len(list) - 1), inst, pin), inst, pin)

\* The candidate lists: testPkgs with some of its packages left out.
RECURSIVE SubListsFrom(_, _)
SubListsFrom(i, n) ==
    IF n = 0 \/ i > Len(testPkgs) THEN {<<>>}
    ELSE SubListsFrom(i + 1, n)
         \cup {<<testPkgs[i]>> \o rest : rest \in SubListsFrom(i + 1, n - 1)}

CandidateLists == SubListsFrom(1, MaxCandidates)

NotResolved == [done |-> FALSE, list |-> <<>>]

ResolveInit ==
    /\ pkgs \in CandidateLists
    /\ atom \in Atoms
    /\ installed \in {NoPackage} \cup Range(pkgs)
    /\ found = NotResolved

\* The test's body: filterPackages, then sortPackages on what it found.
ResolveVersion ==
    /\ ~found.done
    /\ found' = [done |-> TRUE,
                 list |-> sortPackages(
                              filterPackages(pkgs, atom.version, atom.compare, atom.pin,
                                             installed),
                              installed, atom.pin)]
    /\ UNCHANGED <<pkgs, atom, installed>>
    /\ UNCHANGED resolveOthers

ResolveNext == ResolveVersion

InitResolve == ResolveInit /\ GriIdle /\ CacheIdle /\ PathIdle /\ InstallIdle /\ CompareIdle /\ ParseIdle /\ DepIdle /\ SignIdle /\ SplitIdle /\ TarfsIdle /\ EtagIdle

SpecResolve == InitResolve /\ [][ResolveNext]_vars

\* The version order on versions made of numbers and a revision: the numbers
\* decide lexicographically, a strict prefix being lower, then the revision.
NumbersLower(x, y) ==
    \/ \E i \in 1..Len(x) :
          /\ i <= Len(y)
          /\ \A j \in 1..(i - 1) : x[j] = y[j]
          /\ x[i] < y[i]
    \/ (Len(x) < Len(y) /\ IsPrefixSeq(x, y))

VersionLower(a, c) ==
    \/ NumbersLower(a.numbers, c.numbers)
    \/ (a.numbers = c.numbers /\ a.revision < c.revision)

\* The candidates that satisfy the atom's version constraint.
Satisfying == {p \in Range(pkgs) : satisfies(p.version, atom.compare, atom.version)}

\* Those of them that come from the repository the atom names, or from an
\* unnamed repository when the atom names none.
SatisfyingOfPin == {p \in Satisfying : p.pinnedName = atom.pin}

HighestOf(p, S) == p \in S /\ \A q \in S : ~VersionLower(p.version, q.version)

SatisfyingNamed == {p \in Satisfying : p.pinnedName # ""}

C11_WitnessOnly ==
    /\ found.done
    /\ atom.pin = ""
    /\ Satisfying # {}
    /\ Satisfying = SatisfyingNamed
    /\ found.list = <<>>

-----------------------------------------------------------------------------
(***************************************************************************)
(* The version order (Compare, version.go).                                *)
(*                                                                         *)
(* Compare is called on two parsed versions, in both directions.  The      *)
(* versions are the ones Parse can return: every field combination over    *)
(* small value sets in which a suffix number is only present with its      *)
(* suffix.                                                                 *)
(***************************************************************************)

\* Bound: the number of dotted numbers of a version.
MaxNumbers == 2

packageVersionPreModifierAlpha == 1

packageVersionPreModifierBeta == 2

packageVersionPreModifierPre == 3

packageVersionPreModifierRC == 4

packageVersionPostModifierNone == 0

packageVersionPostModifierCVS == 1

packageVersionPostModifierSVN == 2

packageVersionPostModifierGit == 3

packageVersionPostModifierHG == 4

packageVersionPostModifierP == 5

\* The letter of a version as a rune: 0 when absent, else its code point.
NoLetter == 0

LetterA == 97

NumberValues == {0, 1}

NumberLists == UNION {[1..k -> NumberValues] : k \in 1..MaxNumbers}

Letters == {NoLetter, LetterA}

PreSuffixes ==
    {packageVersionPreModifierNone, packageVersionPreModifierAlpha, packageVersionPreModifierRC}

PostSuffixes ==
    {packageVersionPostModifierNone, packageVersionPostModifierCVS, packageVersionPostModifierP}

SuffixNumbers == {0, 1}

Revisions == {0, 1}

\* The Version values Parse returns over these value sets: version.go 177-185.
Versions ==
    {v \in [numbers : NumberLists, letter : Letters, preSuffix : PreSuffixes,
            preSuffixNumber : SuffixNumbers, postSuffix : PostSuffixes,
            postSuffixNumber : SuffixNumbers, revision : Revisions] :
        /\ v.preSuffix = packageVersionPreModifierNone => v.preSuffixNumber = 0
        /\ v.postSuffix = packageVersionPostModifierNone => v.postSuffixNumber = 0}

NotCompared == [done |-> FALSE, fwd |-> equal, bwd |-> equal]

CompareInit ==
    /\ actualV \in Versions
    /\ requiredV \in Versions
    /\ compared = NotCompared

\* Compare(actual, required) and Compare(required, actual).
CompareBoth ==
    /\ ~compared.done
    /\ compared' = [done |-> TRUE, fwd |-> Compare(actualV, requiredV),
                    bwd |-> Compare(requiredV, actualV)]
    /\ UNCHANGED <<actualV, requiredV>>
    /\ UNCHANGED compareOthers

CompareNext == CompareBoth

InitCompare == CompareInit /\ GriIdle /\ CacheIdle /\ PathIdle /\ InstallIdle /\ ResolveIdle /\ ParseIdle /\ DepIdle /\ SignIdle /\ SplitIdle /\ TarfsIdle /\ EtagIdle

SpecCompare == InitCompare /\ [][CompareNext]_vars

(* ---- Claims about Compare ---- *)

\* The rank the order gives a pre-release tag: none above alpha < beta < pre
\* < rc.
PreTagRank(tag) ==
    IF tag = packageVersionPreModifierNone THEN packageVersionPreModifierRC + 1 ELSE tag

\* The rank the order gives a post-release tag: none below cvs < svn < git <
\* hg < p.
PostTagRank(tag) == tag

\* What is compared after the numbers, in the order of the comparison.
OrderKey(v) ==
    <<v.letter, PreTagRank(v.preSuffix), v.preSuffixNumber,
      PostTagRank(v.postSuffix), v.postSuffixNumber, v.revision>>

\* v is strictly before w in the lexicographic order.
LexLower(v, w) ==
    \/ NumbersLower(v.numbers, w.numbers)
    \/ /\ v.numbers = w.numbers
       /\ \E k \in 1..Len(OrderKey(v)) :
             /\ \A j \in 1..(k - 1) : OrderKey(v)[j] = OrderKey(w)[j]
             /\ OrderKey(v)[k] < OrderKey(w)[k]

C13_CompareAntisymmetric ==
    compared.done =>
        /\ compared.fwd = 0 - compared.bwd
        /\ actualV = requiredV => (compared.fwd = 0 /\ compared.bwd = 0)

\* C13 happens: one version's numbers are a strict prefix of the other's,
\* and the two calls returned opposite signs.
C13_Witness ==
    /\ compared.done
    /\ Len(actualV.numbers) < Len(requiredV.numbers)
    /\ IsPrefixSeq(actualV.numbers, requiredV.numbers)
    /\ actualV.revision > requiredV.revision
    /\ compared.fwd = less
    /\ compared.bwd = greater

\* C13 happens in its reflexive case: a version compared with itself.
C13_WitnessReflexive ==
    /\ compared.done
    /\ actualV = requiredV
    /\ actualV.preSuffix = packageVersionPreModifierNone
    /\ compared.fwd = equal

-----------------------------------------------------------------------------
(***************************************************************************)
(* Parsing a version (Parse, version.go).                                  *)
(*                                                                         *)
(* A string is the sequence of its characters.  versionRegex is anchored   *)
(* at both ends and each of its groups starts with a character that no     *)
(* other continuation can start with, so its one match is found by reading *)
(* the groups from left to right, each as long as it can be.  strconv.Atoi *)
(* is the conversion to the 64-bit int: it fails on a value above          *)
(* 9223372036854775807.                                                    *)
(***************************************************************************)

\* Bound: the number of pieces an input string is made of.
MaxPieces == 4

DigitChars == <<"0", "1", "2", "3", "4", "5", "6", "7", "8", "9">>

LowerChars ==
    <<"a", "b", "c", "d", "e", "f", "g", "h", "i", "j", "k", "l", "m",
      "n", "o", "p", "q", "r", "s", "t", "u", "v", "w", "x", "y", "z">>

IsDigit(c) == c \in Range(DigitChars)

IsLower(c) == c \in Range(LowerChars)

\* The value of a digit character.
DigitValue(c) == (CHOOSE i \in 1..Len(DigitChars) : DigitChars[i] = c) - 1

\* The rune of a lower-case letter.
RuneOf(c) == 96 + (CHOOSE i \in 1..Len(LowerChars) : LowerChars[i] = c)

\* The decimal digits of the largest int (1<<63 - 1).
MaxIntDigits ==
    <<"9", "2", "2", "3", "3", "7", "2", "0", "3", "6", "8", "5", "4", "7", "7", "5",
      "8", "0", "7">>

\* The digits without their leading zeros.
RECURSIVE TrimLeadingZeros(_)
TrimLeadingZeros(digits) ==
    IF Len(digits) > 0 /\ digits[1] = "0" THEN TrimLeadingZeros(Tail(digits)) ELSE digits

\* Whether digit string x is at most digit string y of the same length.
RECURSIVE DigitsAtMost(_, _)
DigitsAtMost(x, y) ==
    IF Len(x) = 0 THEN TRUE
    ELSE IF DigitValue(x[1]) < DigitValue(y[1]) THEN TRUE
    ELSE IF DigitValue(x[1]) > DigitValue(y[1]) THEN FALSE
    ELSE DigitsAtMost(Tail(x), Tail(y))

\* Whether strconv.Atoi returns no error on a non-empty string of digits:
\* the value fits the int.
AtoiInRange(digits) ==
    LET d == TrimLeadingZeros(digits) IN
    \/ Len(d) < Len(MaxIntDigits)
    \/ (Len(d) = Len(MaxIntDigits) /\ DigitsAtMost(d, MaxIntDigits))

\* The value strconv.Atoi returns for a string of digits that is in range.
RECURSIVE AtoiValue(_)
AtoiValue(digits) ==
    IF Len(digits) = 0 THEN 0
    ELSE 10 * AtoiValue(SubSeq(digits, 1, Len(digits) - 1)) + DigitValue(digits[Len(digits)])

\* Whether s continues with lit at position i.
HasPrefixAt(s, i, lit) == i + Len(lit) - 1 <= Len(s) /\ SubSeq(s, i, i + Len(lit) - 1) = lit

\* The position after the digits that start at position i: [0-9]*.
RECURSIVE DigitsEnd(_, _)
DigitsEnd(s, i) == IF i <= Len(s) /\ IsDigit(s[i]) THEN DigitsEnd(s, i + 1) ELSE i

\* The position after the dotted numbers that start at position i:
\* (\.[0-9]+)*.
RECURSIVE DottedEnd(_, _)
DottedEnd(s, i) ==
    IF HasPrefixAt(s, i, <<".">>) /\ DigitsEnd(s, i + 1) > i + 1
    THEN DottedEnd(s, DigitsEnd(s, i + 1))
    ELSE i

\* strings.Split(actuals[2], ".") without its empty first part: the digit
\* strings of the dotted numbers between positions i and end.
RECURSIVE DottedParts(_, _, _)
DottedParts(s, i, end) ==
    IF i >= end THEN <<>>
    ELSE <<SubSeq(s, i + 1, DigitsEnd(s, i + 1) - 1)>> \o DottedParts(s, DigitsEnd(s, i + 1), end)

PreSuffixTags ==
    <<[tag |-> <<"_", "a", "l", "p", "h", "a">>, mod |-> packageVersionPreModifierAlpha],
      [tag |-> <<"_", "b", "e", "t", "a">>, mod |-> packageVersionPreModifierBeta],
      [tag |-> <<"_", "p", "r", "e">>, mod |-> packageVersionPreModifierPre],
      [tag |-> <<"_", "r", "c">>, mod |-> packageVersionPreModifierRC]>>

PostSuffixTags ==
    <<[tag |-> <<"_", "c", "v", "s">>, mod |-> packageVersionPostModifierCVS],
      [tag |-> <<"_", "s", "v", "n">>, mod |-> packageVersionPostModifierSVN],
      [tag |-> <<"_", "g", "i", "t">>, mod |-> packageVersionPostModifierGit],
      [tag |-> <<"_", "h", "g">>, mod |-> packageVersionPostModifierHG],
      [tag |-> <<"_", "p">>, mod |-> packageVersionPostModifierP]>>

NoTag == [tag |-> <<>>, mod |-> 0]

\* The tag of the list that s continues with at position i, NoTag if none.
TagAt(s, i, tags) ==
    IF \E k \in 1..Len(tags) : HasPrefixAt(s, i, tags[k].tag)
    THEN tags[CHOOSE k \in 1..Len(tags) : HasPrefixAt(s, i, tags[k].tag)]
    ELSE NoTag

NoParsedVersion == NumbersRevision(<<>>, 0)

\* Parse(version): version.go 82-186.  The regular expression has to match,
\* and every number it captured has to convert.
Parse(s) ==
    LET e1 == DigitsEnd(s, 1)
        e2 == DottedEnd(s, e1)
        e4 == IF e2 <= Len(s) /\ IsLower(s[e2]) THEN e2 + 1 ELSE e2
        pre == TagAt(s, e4, PreSuffixTags)
        e6 == e4 + Len(pre.tag)
        e7 == IF pre = NoTag THEN e4 ELSE DigitsEnd(s, e6)
        post == TagAt(s, e7, PostSuffixTags)
        e9 == e7 + Len(post.tag)
        e10 == IF post = NoTag THEN e7 ELSE DigitsEnd(s, e9)
        hasRevision == HasPrefixAt(s, e10, <<"-", "r">>) /\ DigitsEnd(s, e10 + 2) > e10 + 2
        e13 == IF hasRevision THEN DigitsEnd(s, e10 + 2) ELSE e10
        matched == e1 > 1 /\ e13 = Len(s) + 1
        numberStrings == <<SubSeq(s, 1, e1 - 1)>> \o DottedParts(s, e1, e2)
        preNumber == SubSeq(s, e6, e7 - 1)
        postNumber == SubSeq(s, e9, e10 - 1)
        revision == IF hasRevision THEN SubSeq(s, e10 + 2, e13 - 1) ELSE <<>>
        converted == /\ \A k \in 1..Len(numberStrings) : AtoiInRange(numberStrings[k])
                     /\ AtoiInRange(preNumber)
                     /\ AtoiInRange(postNumber)
                     /\ AtoiInRange(revision)
    IN  IF ~matched \/ ~converted
        THEN [done |-> TRUE, err |-> TRUE, v |-> NoParsedVersion]
        ELSE [done |-> TRUE, err |-> FALSE,
              v |-> [numbers |-> [k \in 1..Len(numberStrings) |-> AtoiValue(numberStrings[k])],
                     letter |-> IF e4 > e2 THEN RuneOf(s[e2]) ELSE NoLetter,
                     preSuffix |-> pre.mod,
                     preSuffixNumber |-> AtoiValue(preNumber),
                     postSuffix |-> post.mod,
                     postSuffixNumber |-> AtoiValue(postNumber),
                     revision |-> AtoiValue(revision)]]

\* The pieces the input strings are made of, by the role they can play in a
\* version: numbers (one of them the smallest that does not fit the int),
\* the dot, a letter, pre-release and post-release tags, the revision mark,
\* and pieces no version has.
OverflowNumber ==
    <<"9", "2", "2", "3", "3", "7", "2", "0", "3", "6", "8", "5", "4", "7", "7", "5",
      "8", "0", "8">>

NumberPieces == {<<"1">>, <<"0", "7">>, OverflowNumber}

DotPieces == {<<".">>}

LetterPieces == {<<"a">>}

PrePieces == {<<"_", "a", "l", "p", "h", "a">>, <<"_", "p", "r", "e">>}

PostPieces == {<<"_", "p">>, <<"_", "g", "i", "t">>}

RevisionPieces == {<<"-", "r">>}

OtherPieces == {<<"Q">>, <<"_", "i", "l", "l", "e", "g", "a", "l">>}

Pieces ==
    NumberPieces \cup DotPieces \cup LetterPieces \cup PrePieces \cup PostPieces
    \cup RevisionPieces \cup OtherPieces

RECURSIVE Flatten(_)
Flatten(ps) == IF Len(ps) = 0 THEN <<>> ELSE ps[1] \o Flatten(Tail(ps))

PieceLists == UNION {[1..k -> Pieces] : k \in 0..MaxPieces}

VersionStrings == {Flatten(ps) : ps \in PieceLists}

NotParsed == [done |-> FALSE, err |-> FALSE, v |-> NoParsedVersion]

ParseInit ==
    /\ versionStr \in VersionStrings
    /\ parseRet = NotParsed

ParseVersion ==
    /\ ~parseRet.done
    /\ parseRet' = Parse(versionStr)
    /\ UNCHANGED versionStr
    /\ UNCHANGED parseOthers

ParseNext == ParseVersion

InitParse == ParseInit /\ GriIdle /\ CacheIdle /\ PathIdle /\ InstallIdle /\ ResolveIdle /\ CompareIdle /\ DepIdle /\ SignIdle /\ SplitIdle /\ TarfsIdle /\ EtagIdle

SpecParse == InitParse /\ [][ParseNext]_vars

(* ---- Claims about Parse ---- *)

\* The version grammar N(.N)*([a-z])?(_(alpha|beta|pre|rc)N?)?
\* (_(cvs|svn|git|hg|p)N?)?(-rN+)? as an automaton over pieces: from a
\* position of the grammar, a piece of a kind leads to the next position.
GrammarSteps ==
    {<<"start", NumberPieces, "number">>,
     <<"number", NumberPieces, "number">>, <<"number", DotPieces, "dot">>,
     <<"number", LetterPieces, "letter">>, <<"number", PrePieces, "pre">>,
     <<"number", PostPieces, "post">>, <<"number", RevisionPieces, "mark">>,
     <<"dot", NumberPieces, "number">>,
     <<"letter", PrePieces, "pre">>, <<"letter", PostPieces, "post">>,
     <<"letter", RevisionPieces, "mark">>,
     <<"pre", NumberPieces, "preNumber">>, <<"pre", PostPieces, "post">>,
     <<"pre", RevisionPieces, "mark">>,
     <<"preNumber", NumberPieces, "preNumber">>, <<"preNumber", PostPieces, "post">>,
     <<"preNumber", RevisionPieces, "mark">>,
     <<"post", NumberPieces, "postNumber">>, <<"post", RevisionPieces, "mark">>,
     <<"postNumber", NumberPieces, "postNumber">>, <<"postNumber", RevisionPieces, "mark">>,
     <<"mark", NumberPieces, "revision">>,
     <<"revision", NumberPieces, "revision">>}

GrammarEnds == {"number", "letter", "pre", "preNumber", "post", "postNumber", "revision"}

\* The positions of the grammar the pieces lead to, from the position at.
RECURSIVE GrammarAfter(_, _)
GrammarAfter(ps, at) ==
    IF Len(ps) = 0 THEN {at}
    ELSE UNION {GrammarAfter(Tail(ps), step[3]) :
                   step \in {t \in GrammarSteps : t[1] = at /\ ps[1] \in t[2]}}

\* The strings of the grammar among the input strings.
GrammarStrings ==
    {Flatten(ps) : ps \in {q \in PieceLists : GrammarAfter(q, "start") \cap GrammarEnds # {}}}

\* Whether the string holds the number that does not fit the int.
HoldsOverflowNumber(s) == \E i \in 1..Len(s) : HasPrefixAt(s, i, OverflowNumber)

\* C14: Parse succeeds on exactly the strings that match the anchored version
\* grammar, whatever the number of digits of each numeric component, and
\* returns an error for every other string.
C14_ParseAcceptsExactlyGrammar ==
    parseRet.done => (~parseRet.err <=> versionStr \in GrammarStrings)

\* What Parse does: it succeeds on exactly the strings of the grammar whose
\* numbers all fit the int.
ParseAcceptsGrammarInRange ==
    parseRet.done =>
        (~parseRet.err <=> (versionStr \in GrammarStrings /\ ~HoldsOverflowNumber(versionStr)))

\* A string of the grammar with a number of 19 digits was rejected.
ParseRejectedGrammarString ==
    /\ parseRet.done
    /\ parseRet.err
    /\ versionStr \in GrammarStrings

-----------------------------------------------------------------------------
(***************************************************************************)
(* Parsing a dependency string (resolvePackageNameVersionPin).             *)
(*                                                                         *)
(* packageNameRegex is code (version.go 41); the function that applies it  *)
(* is not among the sources and is modelled from the specification's       *)
(* dependency atom grammar and from TestResolverPackageNameVersionPin.     *)
(* The expression is anchored at both ends; its name stops at the first    *)
(* of @ = > < ~, its operator is read as long as it can be while a version *)
(* is left, its version stops at the first @, and its pin runs to the end. *)
(***************************************************************************)

OpChars == {"=", ">", "<", "~"}

UpperChars ==
    <<"A", "B", "C", "D", "E", "F", "G", "H", "I", "J", "K", "L", "M",
      "N", "O", "P", "Q", "R", "S", "T", "U", "V", "W", "X", "Y", "Z">>

AlnumChars == Range(DigitChars) \cup Range(LowerChars) \cup Range(UpperChars)

\* The position after the characters from position i on that are in chars.
RECURSIVE RunEnd(_, _, _)
RunEnd(s, i, chars) == IF i <= Len(s) /\ s[i] \in chars THEN RunEnd(s, i + 1, chars) ELSE i

\* The position after the characters from position i on that are not in chars.
RECURSIVE RunEndNot(_, _, _)
RunEndNot(s, i, chars) ==
    IF i <= Len(s) /\ s[i] \notin chars THEN RunEndNot(s, i + 1, chars) ELSE i

\* The operator read as one character only.
OpLength_One(opRun, span) == 1

\* The length of the operator ([=><~]+) in a span that starts with opRun
\* operator characters: as many as leave a version ([^@]+) behind them.
OpLength(opRun, span) == IF opRun < span THEN opRun ELSE span - 1

\* versionDependency of an operator.
DepOfOp(op) ==
    CASE op = <<"=">> -> "versionEqual"
      [] op = <<">">> -> "versionGreater"
      [] op = <<"<">> -> "versionLess"
      [] op = <<">", "=">> -> "versionGreaterEqual"
      [] op = <<"<", "=">> -> "versionLessEqual"
      [] op = <<"~">> -> "versionTilde"
      [] OTHER -> "versionNone"

\* The submatches of packageNameRegex on s: version.go 41.
packageNameRegex(s) ==
    LET nameEnd == RunEndNot(s, 1, OpChars \cup {"@"})
        spanEnd == RunEndNot(s, nameEnd, {"@"})
        opRun == RunEnd(s, nameEnd, OpChars) - nameEnd
        span == spanEnd - nameEnd
        hasConstraint == opRun >= 1 /\ span >= 2
        opEnd == IF hasConstraint THEN nameEnd + OpLength(opRun, span) ELSE nameEnd
        afterConstraint == IF hasConstraint THEN spanEnd ELSE nameEnd
        pinEnd == RunEnd(s, afterConstraint + 1, AlnumChars)
        hasPin == /\ afterConstraint <= Len(s)
                  /\ s[afterConstraint] = "@"
                  /\ pinEnd > afterConstraint + 1
        end == IF hasPin THEN pinEnd ELSE afterConstraint
    IN  [matched |-> nameEnd > 1 /\ end = Len(s) + 1,
         name |-> SubSeq(s, 1, nameEnd - 1),
         op |-> SubSeq(s, nameEnd, opEnd - 1),
         version |-> SubSeq(s, opEnd, afterConstraint - 1),
         pin |-> IF hasPin THEN SubSeq(s, afterConstraint + 1, pinEnd - 1) ELSE <<>>]

\* resolvePackageNameVersionPin(pkgName)
resolvePackageNameVersionPin(s) ==
    LET m == packageNameRegex(s) IN
    IF ~m.matched
    THEN [done |-> TRUE, name |-> s, version |-> <<>>, dep |-> "versionAny", pin |-> <<>>]
    ELSE [done |-> TRUE, name |-> m.name, version |-> m.version,
          dep |-> IF m.op = <<>> THEN "versionAny" ELSE DepOfOp(m.op), pin |-> m.pin]

\* The tokens the inputs are written with.
NameTexts == {<<"n", "a", "m", "e">>, <<"f", "o", "o", "-", "d", "e", "v">>}

OpTexts == {<<"=">>, <<">">>, <<"<">>, <<">", "=">>, <<"<", "=">>, <<"~">>}

VersionTexts == {<<"1", ".", "2", ".", "3">>, <<"1", ".", "2", "-", "r", "0">>}

PinTexts == {<<"e", "d", "g", "e">>, <<"c", "o", "m", "m", "u", "n", "i", "t", "y">>}

NameTokens == [kind : {"name"}, op : {<<>>}, text : NameTexts]

ConstraintTokens == [kind : {"constraint"}, op : OpTexts, text : VersionTexts]

PinTokens == [kind : {"pin"}, op : {<<>>}, text : PinTexts]

DepTokens == NameTokens \cup ConstraintTokens \cup PinTokens

\* The inputs: at most one token of each kind, in any order.
DepTokenLists ==
    {ts \in UNION {[1..k -> DepTokens] : k \in 0..3} :
        \A i, j \in 1..Len(ts) : i # j => ts[i].kind # ts[j].kind}

\* A token as it is written.
TokenString(t) ==
    CASE t.kind = "name" -> t.text
      [] t.kind = "constraint" -> t.op \o t.text
      [] t.kind = "pin" -> <<"@">> \o t.text

DepString(ts) == Flatten([i \in 1..Len(ts) |-> TokenString(ts[i])])

NotResolvedName == [done |-> FALSE, name |-> <<>>, version |-> <<>>, dep |-> "", pin |-> <<>>]

DepInit ==
    /\ depTokens \in DepTokenLists
    /\ pkgName = DepString(depTokens)
    /\ constraint = NotResolvedName

ResolveName ==
    /\ ~constraint.done
    /\ constraint' = resolvePackageNameVersionPin(pkgName)
    /\ UNCHANGED <<depTokens, pkgName>>
    /\ UNCHANGED depOthers

DepNext == ResolveName

InitDep == DepInit /\ GriIdle /\ CacheIdle /\ PathIdle /\ InstallIdle /\ ResolveIdle /\ CompareIdle /\ ParseIdle /\ SignIdle /\ SplitIdle /\ TarfsIdle /\ EtagIdle

SpecDep == InitDep /\ [][DepNext]_vars

(* ---- Claims about resolvePackageNameVersionPin ---- *)

KindsOf(ts) == [i \in 1..Len(ts) |-> ts[i].kind]

\* The input is of the form name[<op>version][@pin].
InForm ==
    KindsOf(depTokens) \in {<<"name">>, <<"name", "constraint">>, <<"name", "pin">>,
                            <<"name", "constraint", "pin">>}

\* The input has the tokens of that form, in another order.
OutOfOrder ==
    /\ Len(depTokens) >= 2
    /\ "name" \in Range(KindsOf(depTokens))
    /\ ~InForm

\* The token of a kind in the input, or the default when there is none.
TokenOf(kind, default) ==
    IF \E i \in 1..Len(depTokens) : depTokens[i].kind = kind
    THEN depTokens[CHOOSE i \in 1..Len(depTokens) : depTokens[i].kind = kind]
    ELSE default

\* C15: parsing a string of the form name[<op>version][@pin] yields exactly
\* that name, op, version and pin (any and an empty version without a
\* constraint, an empty pin without a pin); a string whose tokens are out of
\* order yields the whole string as the name, with any, an empty version and
\* an empty pin.
C15_AtomParsesToItsTokens ==
    constraint.done =>
        /\ InForm =>
            LET c == TokenOf("constraint", [kind |-> "constraint", op |-> <<>>, text |-> <<>>])
                p == TokenOf("pin", [kind |-> "pin", op |-> <<>>, text |-> <<>>])
            IN  /\ constraint.name = depTokens[1].text
                /\ constraint.version = c.text
                /\ constraint.dep = (IF c.op = <<>> THEN "versionAny" ELSE DepOfOp(c.op))
                /\ constraint.dep # "versionNone"
                /\ constraint.pin = p.text
        /\ OutOfOrder =>
            /\ constraint.name = pkgName
            /\ constraint.version = <<>>
            /\ constraint.dep = "versionAny"
            /\ constraint.pin = <<>>

\* C15 happens: name>=version@pin was parsed into its four parts.
C15_Witness ==
    /\ constraint.done
    /\ KindsOf(depTokens) = <<"name", "constraint", "pin">>
    /\ depTokens[2].op = <<">", "=">>
    /\ constraint.dep = "versionGreaterEqual"
    /\ constraint.version = depTokens[2].text
    /\ constraint.pin = depTokens[3].text
    /\ constraint.pin # <<>>

\* C15 happens in its other case: name@pin=version came back whole.
C15_WitnessOutOfOrder ==
    /\ constraint.done
    /\ KindsOf(depTokens) = <<"name", "pin", "constraint">>
    /\ constraint.name = pkgName
    /\ constraint.dep = "versionAny"

-----------------------------------------------------------------------------
(***************************************************************************)
(* Signing an index (SignIndex, filters.go), and loading what it wrote     *)
(* (GetRepositoryIndexes on a file:// repository).                         *)
(*                                                                         *)
(* File contents, tar entry names, digests and signatures are as in the    *)
(* index loader above.  The name of a key file is the sequence of its      *)
(* dot-separated tokens, like an entry name.                               *)
(***************************************************************************)

\* Bound: the number of SignIndex calls on the file.
MaxSigns == 2

\* The base names of the private key files: k1.rsa, k2.rsa, k1.pem, key.
PrivkeyFiles == {<<"k1", "rsa">>, <<"k2", "rsa">>, <<"k1", "pem">>, <<"key">>}

\* The signers: an RSA key pair, the file its private key was read from, and
\* whether the private key can be used (it parses; a passphrase was given
\* when it is encrypted).
Signers == [key : PubKeys, privkeyFile : PrivkeyFiles, usable : BOOLEAN]

\* keySignerVerifier.KeyName: filters.go 109-111.
KeyName(s) == s.privkeyFile

\* strings.HasPrefix(hdr.Name, ".SIGN.RSA")
HasSignPrefix(name) ==
    /\ Len(name) >= 3
    /\ SubSeq(name, 1, 2) = <<"", "SIGN">>
    /\ name[3] \in {"RSA", "RSA256"}

\* The already-signed check that never finds a signature.
indexIsAlreadySigned_Never(file) == [err |-> Len(file) = 0, is |-> FALSE]

\* indexIsAlreadySigned(indexFile): filters.go 233-262.  The tar reader stops
\* at the end of the first member's tar.
indexIsAlreadySigned(file) ==
    IF Len(file) = 0 THEN [err |-> TRUE, is |-> FALSE]
    ELSE [err |-> FALSE, is |-> \E i \in 1..Len(file[1]) : HasSignPrefix(file[1][i].name)]

\* The files SignIndex is called on: no bytes, an index, an index whose tar
\* has a later entry named like a signature, and signed indexes.
SignableFiles ==
    {<<>>, <<PayloadMember("idxA")>>, <<PayloadMember("idxBad")>>,
     <<PayloadMember("idxA")
       \o <<[name |-> <<"", "SIGN", "RSA256", "x">>, body |-> GarbageSignature]>> >>,
     SignedFile(K1Name, "K1", "idxA", "idxA"),
     SignedFile(K2Name, "K2", "idxB", "idxB")}

\* What the file holds after the writes of filters.go 212-226, by how far
\* they got: os.Create failed, io.Copy of the signature failed, idx.Write of
\* the index data failed, or all succeeded.
WriteOutcomes == {"createErr", "copyErr", "writeErr", "ok"}

WrittenFile(file, sigMember, outcome) ==
    CASE outcome = "createErr" -> file
      [] outcome = "copyErr" -> <<>>
      [] outcome = "writeErr" -> <<sigMember>>
      [] outcome = "ok" -> <<sigMember>> \o file

NotSigned == [called |-> FALSE, err |-> FALSE]

SignInit ==
    /\ indexFile \in SignableFiles
    /\ originalIndex = indexFile
    /\ signer \in Signers
    /\ signCalls = 0
    /\ signRet = NotSigned

\* SignIndex(logger, signer, indexFile): filters.go 170-231.
SignIndex ==
    /\ signCalls < MaxSigns
    /\ griPc = "off"
    /\ signCalls' = signCalls + 1
    /\ LET is == indexIsAlreadySigned(indexFile)
           indexDigest == HashData(indexFile)
           sigData == RSASign(signer.key, indexDigest)
           sigMember == SignatureMember(<<"", "SIGN", "RSA">> \o KeyName(signer) \o <<"pub">>,
                                        sigData)
       IN  IF is.err
           THEN signRet' = [called |-> TRUE, err |-> TRUE] /\ indexFile' = indexFile
           ELSE IF is.is
           THEN signRet' = [called |-> TRUE, err |-> FALSE] /\ indexFile' = indexFile
           ELSE IF ~signer.usable
           THEN signRet' = [called |-> TRUE, err |-> TRUE] /\ indexFile' = indexFile
           ELSE \E outcome \in WriteOutcomes :
                   /\ indexFile' = WrittenFile(indexFile, sigMember, outcome)
                   /\ signRet' = [called |-> TRUE, err |-> outcome # "ok"]
    /\ UNCHANGED <<originalIndex, signer>>
    /\ UNCHANGED signOthers

\* GetRepositoryIndexes is called on the file's repository, with signature
\* verification and one of the keyrings.
LoadIndex ==
    /\ griPc = "off"
    /\ repos' = <<[pin |-> "", fields |-> TRUE, scheme |-> "file", fetch |-> "ok",
                   bytes |-> indexFile]>>
    /\ keys' \in Keyrings
    /\ ignoreSignatures' = FALSE
    /\ repoIdx' = 1
    /\ b' = NoBytes
    /\ indexes' = <<>>
    /\ griPc' = "fetch"
    /\ griRet' = [indexes |-> <<>>, err |-> "pending"]
    /\ UNCHANGED signVars
    /\ UNCHANGED <<cacheVars, pathVars, installVars, resolveVars, compareVars, parseVars, depVars, splitVars, tarfsVars, etagVars>>

SignNext == SignIndex \/ LoadIndex \/ GriFetch \/ GriValidate \/ GriReturn

InitSign == SignInit /\ GriIdle /\ CacheIdle /\ PathIdle /\ InstallIdle /\ ResolveIdle /\ CompareIdle /\ ParseIdle /\ DepIdle /\ SplitIdle /\ TarfsIdle /\ EtagIdle

SpecSign == InitSign /\ [][SignNext]_vars

(* ---- Claims about SignIndex ---- *)

\* An unsigned index file was signed by one successful SignIndex call and
\* then loaded.
SignedThenLoaded ==
    /\ griPc = "done"
    /\ originalIndex \in {<<PayloadMember("idxA")>>}
    /\ signCalls = 1
    /\ ~signRet.err

\* The keyring holds the public key of the signer's key pair.
KeyringHoldsSignerKey ==
    ~keys.isNil /\ \E n \in DOMAIN keys.m : keys.m[n] = signer.key

\* The keyring holds keys, and none is the signer's public key.
KeyringHoldsOnlyOtherKeys ==
    /\ ~keys.isNil
    /\ DOMAIN keys.m # {}
    /\ \A n \in DOMAIN keys.m : keys.m[n] \in PubKeys \ {signer.key}

\* C16: for any unsigned index file and any RSA key pair, SignIndex followed
\* by loading the index with signature verification succeeds when the keyring
\* holds the signing key's public key, and fails when the keyring holds only
\* a different key.
C16_SignThenLoadVerifies ==
    SignedThenLoaded =>
        /\ KeyringHoldsSignerKey => (griRet.err = "nil" /\ Len(griRet.indexes) = 1)
        /\ KeyringHoldsOnlyOtherKeys => (griRet.err # "nil" /\ griRet.indexes = <<>>)

\* What the code does: the same, for a private key file whose name ends in
\* .rsa.
SignThenLoadVerifiesForRsaFiles ==
    (SignedThenLoaded /\ IsSuffixSeq(<<"rsa">>, signer.privkeyFile)) =>
        /\ KeyringHoldsSignerKey => (griRet.err = "nil" /\ Len(griRet.indexes) = 1)
        /\ KeyringHoldsOnlyOtherKeys => (griRet.err # "nil" /\ griRet.indexes = <<>>)

\* An index signed with one key was loaded with that key in the keyring.
SignedAndLoadedWithSignerKey ==
    /\ SignedThenLoaded
    /\ KeyringHoldsSignerKey
    /\ griRet.err = "nil"
    /\ Len(griRet.indexes) = 1

\* An index signed with a key file not named *.rsa was rejected although the
\* keyring holds the signer's key.
SignedButRejectedForKeyFileName ==
    /\ SignedThenLoaded
    /\ KeyringHoldsSignerKey
    /\ griRet.err = "failed to find key name"

\* The first tar entry of the file matches .SIGN.RSA*.
FirstEntryIsSignature(file) ==
    Len(file) >= 1 /\ Len(file[1]) >= 1 /\ HasSignPrefix(file[1][1].name)

\* C17: SignIndex applied to an index whose first tar entry already matches
\* .SIGN.RSA* returns without error and leaves the file byte-identical; so a
\* second SignIndex after a successful one leaves the file as the first one
\* wrote it.
C17_SignIndexIdempotent ==
    [][(signCalls' = signCalls + 1) =>
          /\ FirstEntryIsSignature(indexFile) => (~signRet'.err /\ indexFile' = indexFile)
          /\ (signCalls >= 1 /\ ~signRet.err) => (~signRet'.err /\ indexFile' = indexFile)]_vars

\* C17 happens: an unsigned index was signed, SignIndex was applied again
\* without error, and the file is the signature member followed by the
\* original bytes.
C17_Witness ==
    /\ signCalls = 2
    /\ ~signRet.err
    /\ originalIndex = <<PayloadMember("idxA")>>
    /\ Len(indexFile) = 2
    /\ SubSeq(indexFile, 2, 2) = originalIndex
    /\ FirstEntryIsSignature(indexFile)


\* ==========================================================================
\* Splitting an APK into its gzip members (Split, package expandapk)
\* ==========================================================================

\* The longest input, in gzip members.
MaxMembers == 4

\* One piece of the input as gzip sees it: a whole gzip member ("ok") with
\* raw (compressed) and plain (decompressed) sizes, bytes that are no gzip
\* header ("badHeader"), or a member cut short in its body ("truncated").
Members ==
    [kind : {"ok"}, raw : {1, 2}, plain : {1, 2}]
    \cup [kind : {"badHeader", "truncated"}, raw : {1}, plain : {0}]

RECURSIVE MemberLists(_)
MemberLists(n) ==
    IF n = 0 THEN {<<>>}
    ELSE LET shorter == MemberLists(n - 1)
         IN  shorter \cup {Append(l, m) : l \in {x \in shorter : Len(x) = n - 1}, m \in Members}

\* The stream ids at which the writer may report that it will open no
\* further stream after this one.
WriterLimits == {2, 3}

RECURSIVE SumOver(_, _, _)
\* The sum of field f ("raw" or "plain") over members from..Len(l) of l.
SumOver(l, from, f) ==
    IF from > Len(l) THEN 0
    ELSE (IF f = "raw" THEN l[from].raw ELSE l[from].plain) + SumOver(l, from + 1, f)

RECURSIVE SumSeq(_)
SumSeq(q) == IF q = <<>> THEN 0 ELSE Head(q) + SumSeq(Tail(q))

\* No file name (the zero value of SplitAPK.SignatureFile).
NoFile == 0 - 1

SplitPending == [kind |-> "pending"]

SplitError(why) == [kind |-> "error", err |-> why]

\* A nil *gzip.Reader dereferenced: the goroutine panics, Split returns
\* nothing.
SplitPanic == [kind |-> "panic"]

SplitAPK(isSigned, size, control, package, signature) ==
    [kind |-> "ok", Signed |-> isSigned, Size |-> size, ControlFile |-> control,
     PackageFile |-> package, SignatureFile |-> signature]

\* Split up to its loop: the temp directory is empty, the writer has opened
\* no stream, gzi is nil.
SplitInit ==
    /\ apkSource \in MemberLists(MaxMembers)
    /\ maxStreams \in WriterLimits
    /\ splitPc = "loop"
    /\ srcPos = 0
    /\ gzi = "nil"
    /\ streamId = 0 - 1
    /\ maxStreamsReached = FALSE
    /\ totalSize = 0
    /\ gzipStreams = <<>>
    /\ streamFiles = <<>>
    /\ splitRet = SplitPending
    /\ tempDir = "present"

\* The first member at or after position from that is not a whole gzip
\* member, or 0.
RECURSIVE FirstBroken(_, _)
FirstBroken(l, from) ==
    IF from > Len(l) THEN 0
    ELSE IF l[from].kind # "ok" THEN from
    ELSE FirstBroken(l, from + 1)

SplitFail(why) ==
    /\ splitPc' = "done"
    /\ splitRet' = SplitError(why)

\* One turn of Split's loop: sw.Next, gzip.NewReader or Reset, Multistream,
\* io.Copy, append.
SplitLoop ==
    /\ splitPc = "loop"
    /\ LET id == streamId + 1
           reached == maxStreamsReached \/ id >= maxStreams
           opened == Append(streamFiles, 0)
           next == srcPos + 1
           broken == FirstBroken(apkSource, next)
       IN  /\ streamId' = id
           /\ maxStreamsReached' = reached
           /\ IF next > Len(apkSource)
              THEN \* io.EOF reading the header: NewReader returns nil,
                   \* Reset leaves the reader as it is
                   /\ splitPc' = "after"
                   /\ streamFiles' = opened
                   /\ UNCHANGED <<srcPos, gzi, totalSize, gzipStreams, splitRet>>
              ELSE IF apkSource[next].kind = "badHeader"
              THEN /\ SplitFail("creating gzip reader")
                   /\ streamFiles' = [opened EXCEPT ![id + 1] = apkSource[next].raw]
                   /\ srcPos' = next
                   /\ UNCHANGED <<gzi, totalSize, gzipStreams>>
              ELSE IF ~reached
              THEN \* Multistream(false): this member only
                   /\ streamFiles' = [opened EXCEPT ![id + 1] = apkSource[next].raw]
                   /\ srcPos' = next
                   /\ gzi' = "open"
                   /\ IF apkSource[next].kind = "truncated"
                      THEN /\ SplitFail("expandApk error 3")
                           /\ UNCHANGED <<totalSize, gzipStreams>>
                      ELSE /\ totalSize' = totalSize + apkSource[next].plain
                           /\ gzipStreams' = Append(gzipStreams, id)
                           /\ UNCHANGED <<splitPc, splitRet>>
              ELSE \* multistream: every member that is left, as one stream
                   /\ gzi' = "open"
                   /\ IF broken # 0
                      THEN /\ SplitFail("expandApk error 3")
                           /\ streamFiles' = [opened EXCEPT ![id + 1] =
                                  SumOver(SubSeq(apkSource, 1, broken), next, "raw")]
                           /\ srcPos' = broken
                           /\ UNCHANGED <<totalSize, gzipStreams>>
                      ELSE /\ streamFiles' = [opened EXCEPT ![id + 1] = SumOver(apkSource, next, "raw")]
                           /\ srcPos' = Len(apkSource)
                           /\ totalSize' = totalSize + SumOver(apkSource, next, "plain")
                           /\ gzipStreams' = Append(gzipStreams, id)
                           /\ UNCHANGED <<splitPc, splitRet>>
    /\ UNCHANGED <<apkSource, maxStreams, tempDir>>
    /\ UNCHANGED splitOthers

\* After the loop: gzi.Close, sw.CloseFile, the switch on the number of
\* streams and the SplitAPK returned.
SplitReturn ==
    /\ splitPc = "after"
    /\ splitPc' = "done"
    /\ LET numGzipStreams == Len(gzipStreams)
           isSigned == numGzipStreams = 3
           controlDataIndex == IF numGzipStreams = 3 THEN 1 ELSE 0
       IN  splitRet' =
               IF gzi = "nil" THEN SplitPanic
               ELSE IF numGzipStreams \notin {2, 3}
               THEN SplitError("invalid number of tar streams")
               ELSE SplitAPK(isSigned, totalSize,
                             gzipStreams[controlDataIndex + 1],
                             gzipStreams[controlDataIndex + 2],
                             IF isSigned THEN gzipStreams[1] ELSE NoFile)
    /\ UNCHANGED <<apkSource, maxStreams, srcPos, gzi, streamId, maxStreamsReached,
                   totalSize, gzipStreams, streamFiles, tempDir>>
    /\ UNCHANGED splitOthers

\* SplitAPK.Close, which the caller of a successful Split has the SplitAPK
\* for: os.RemoveAll of the temp directory.
SplitClose ==
    /\ splitPc = "done" /\ splitRet.kind = "ok"
    /\ splitPc' = "closed"
    /\ tempDir' = "removed"
    /\ streamFiles' = <<>>
    /\ UNCHANGED <<apkSource, maxStreams, srcPos, gzi, streamId, maxStreamsReached,
                   totalSize, gzipStreams, splitRet>>
    /\ UNCHANGED splitOthers

SplitNext == SplitLoop \/ SplitReturn \/ SplitClose

InitSplit == SplitInit /\ GriIdle /\ CacheIdle /\ PathIdle /\ InstallIdle /\ ResolveIdle /\ CompareIdle /\ ParseIdle /\ DepIdle /\ SignIdle /\ TarfsIdle /\ EtagIdle

SpecSplit == InitSplit /\ [][SplitNext]_vars

\* The input is a concatenation of whole gzip members.
AllGzipMembers == \A i \in 1..Len(apkSource) : apkSource[i].kind = "ok"

\* C19: Split succeeds exactly when the input is a concatenation of 2 or 3
\* gzip members: with 2 the files are control and data and Signed is false,
\* with 3 they are signature, control and data and Signed is true; for
\* every other input (0, 1, 4 or more members) Split returns an error.
C19_SplitSucceedsExactlyOnTwoOrThree ==
    splitPc = "done" =>
        LET n == Len(apkSource)
        IN  IF AllGzipMembers /\ n = 2
            THEN splitRet.kind = "ok" /\ ~splitRet.Signed
                 /\ splitRet.ControlFile = 0 /\ splitRet.PackageFile = 1
                 /\ splitRet.SignatureFile = NoFile
            ELSE IF AllGzipMembers /\ n = 3
            THEN splitRet.kind = "ok" /\ splitRet.Signed
                 /\ splitRet.SignatureFile = 0 /\ splitRet.ControlFile = 1
                 /\ splitRet.PackageFile = 2
            ELSE splitRet.kind = "error"

\* What Split does on the empty input: the loop ends with gzi nil and
\* gzi.Close panics.
SplitOfEmptyInputPanics ==
    splitPc = "done" /\ apkSource = <<>> /\ splitRet = SplitPanic

\* What holds of Split for the inputs of 1 to 3 pieces: success exactly on 2
\* or 3 whole members, an error otherwise.
SplitOfOneToThreeAsDocumented ==
    (splitPc = "done" /\ Len(apkSource) \in 1..3) => C19_SplitSucceedsExactlyOnTwoOrThree

\* Four or more whole members split without error when the writer's last
\* stream is the third: it swallows every member that is left.
SplitOfFourSucceeds ==
    splitPc = "done" /\ AllGzipMembers /\ Len(apkSource) >= 4 /\ splitRet.kind = "ok"

\* The bytes of the input.
InputSize == SumOver(apkSource, 1, "raw")

\* C20: after a successful Split of a valid APK the sizes of the stream
\* files of the temp directory add up to the bytes of the input, and
\* SplitAPK.Size is that same number.
C20_SizeIsSumOfStreamFiles ==
    (splitPc = "done" /\ splitRet.kind = "ok" /\ AllGzipMembers /\ Len(apkSource) \in {2, 3}) =>
        /\ SumSeq(streamFiles) = InputSize
        /\ splitRet.Size = InputSize

\* The half of C20 about the files holds: they hold the input, byte for
\* byte.
StreamFilesHoldInput ==
    (splitPc = "done" /\ splitRet.kind = "ok") => SumSeq(streamFiles) = InputSize

\* SplitAPK.Size is the decompressed size of the members.
SizeIsDecompressedSize ==
    (splitPc = "done" /\ splitRet.kind = "ok") => splitRet.Size = SumOver(apkSource, 1, "plain")

\* A valid APK split with a Size that is not the size of its files.
SplitSizeDiffersFromFiles ==
    /\ splitPc = "done" /\ splitRet.kind = "ok" /\ AllGzipMembers /\ Len(apkSource) = 3
    /\ SumSeq(streamFiles) = InputSize
    /\ splitRet.Size # InputSize

\* C30: whenever Split returns an error, the temporary directory it created
\* and the stream files in it have been removed before it returns.
C30_ErrorRemovesTempDir ==
    (splitPc = "done" /\ splitRet.kind = "error") =>
        tempDir = "removed" /\ streamFiles = <<>>

\* The temp directory is removed by SplitAPK.Close and by nothing else.
TempDirRemovedByCloseOnly ==
    tempDir = "removed" <=> splitPc = "closed"

\* Split returned the error of a wrong member count; the directory and the
\* stream file written for the one member are on disk.
SplitErrorLeavesTempDir ==
    /\ splitPc = "done" /\ splitRet = SplitError("invalid number of tar streams")
    /\ Len(apkSource) = 1
    /\ tempDir = "present" /\ Len(streamFiles) > 0 /\ SumSeq(streamFiles) = InputSize

\* A truncated member: the error is returned from inside the loop, the
\* directory stays.
SplitTruncatedLeavesTempDir ==
    /\ splitPc = "done" /\ splitRet = SplitError("expandApk error 3")
    /\ tempDir = "present" /\ streamFiles # <<>>


\* ==========================================================================
\* tarfs: a random-access, read-only view of a tar (package tarfs)
\* ==========================================================================

\* The most entries of a tar.
MaxEntries == 2

\* The most calls made on one FS and the File opened from it.
MaxFileOps == 3

\* io.SeekStart, io.SeekCurrent, io.SeekEnd
SeekStart == 0

SeekCurrent == 1

SeekEnd == 2

\* A whence that is none of the three.
SeekBogus == 3

\* A tar header as tar.Reader.Next returns it: the name as stored, the type
\* and the size of the data that follows.
TarHeader(name, typeflag, size) == [Name |-> name, Typeflag |-> typeflag, Size |-> size]

\* The headers the tars are made of: an empty and a two-byte file "a", the
\* directory "d/" (directories are stored with a trailing slash and no
\* data) and two files in it.
HeaderChoices ==
    {TarHeader(<<"a">>, "reg", 0), TarHeader(<<"a">>, "reg", 2),
     TarHeader(<<"d", "/">>, "dir", 0),
     TarHeader(<<"d", "/", "b">>, "reg", 1), TarHeader(<<"d", "/", "a">>, "reg", 2)}

Tars == UNION {[1..k -> HeaderChoices] : k \in 0..MaxEntries}

\* The names asked for: those stored, the root, the directory without its
\* slash, and a name no tar holds.
QueryNames ==
    {h.Name : h \in HeaderChoices} \cup {<<".">>, <<"d">>, <<"x">>}

\* The bytes one entry takes in the tar: its header block, its data, and
\* the padding that rounds the data up to whole blocks (blocks of two
\* bytes here, of 512 in a tar).
EntryBytes(t, i) ==
    <<<<"header", i, 0>>>>
    \o [k \in 1..t[i].Size |-> <<"data", i, k>>]
    \o (IF t[i].Size % 2 = 1 THEN <<<<"padding", i, 0>>>> ELSE <<>>)

RECURSIVE TarBytesFrom(_, _)
TarBytesFrom(t, i) ==
    IF i > Len(t) THEN <<<<"end", 0, 0>>, <<"end", 0, 0>>>>
    ELSE EntryBytes(t, i) \o TarBytesFrom(t, i + 1)

\* The bytes of the tar file, as every stream the factory opens reads them.
TarBytes(t) == TarBytesFrom(t, 1)

\* The data of entry i as the tar holds it.
EntryData(t, i) == [k \in 1..t[i].Size |-> <<"data", i, k>>]

RECURSIVE DataOffset(_, _)
\* countReader.n once tar.Reader.Next has returned the header of entry i:
\* the bytes before the entry's data.
DataOffset(t, i) ==
    IF i = 1 THEN 1
    ELSE DataOffset(t, i - 1) + t[i - 1].Size + (t[i - 1].Size % 2) + 1

\* tar.Header.FileInfo().Name(): the base of the name, cleaned first for a
\* directory.
FileInfoName(h) ==
    IF h.Typeflag = "dir" THEN Base(Clean(h.Name)) ELSE Base(h.Name)

\* New: one Entry per header, in the order of the tar, and the index from
\* each name to the last entry that has it.
NewFiles(t) ==
    [i \in 1..Len(t) |->
        [Header |-> t[i], Offset |-> DataOffset(t, i), dir |-> Dir(t[i].Name),
         fiName |-> FileInfoName(t[i]), fiIsDir |-> t[i].Typeflag = "dir"]]

IndexLast(t, name) ==
    CHOOSE i \in 1..Len(t) : t[i].Name = name /\ \A j \in (i + 1)..Len(t) : t[j].Name # name

NewIndex(t) ==
    [name \in {t[i].Name : i \in 1..Len(t)} |-> IndexLast(t, name)]

\* The order of the characters of the names, as bytes compare.
NameChars == <<".", "/", "a", "b", "d", "x">>

CharRank(c) == CHOOSE i \in 1..Len(NameChars) : NameChars[i] = c

RECURSIVE StringLess(_, _)
\* cmp.Compare(x, y) < 0 on strings
StringLess(x, y) ==
    IF y = <<>> THEN FALSE
    ELSE IF x = <<>> THEN TRUE
    ELSE IF x[1] # y[1] THEN CharRank(x[1]) < CharRank(y[1])
    ELSE StringLess(Tail(x), Tail(y))

RECURSIVE InsertByName(_, _)
InsertByName(sorted, f) ==
    IF sorted = <<>> THEN <<f>>
    ELSE IF StringLess(f.fiName, sorted[1].fiName) THEN <<f>> \o sorted
    ELSE <<sorted[1]>> \o InsertByName(Tail(sorted), f)

RECURSIVE SortByName(_)
\* slices.SortFunc(children, by Name)
SortByName(children) ==
    IF children = <<>> THEN <<>>
    ELSE InsertByName(SortByName(SubSeq(children, 1, Len(children) - 1)), children[Len(children)])

RECURSIVE ChildrenOf(_, _, _)
\* ReadDir's loop: the entries whose dir is name, in the order of files.
ChildrenOf(list, i, name) ==
    IF i > Len(list) THEN <<>>
    ELSE (IF list[i].dir = name THEN <<list[i]>> ELSE <<>>) \o ChildrenOf(list, i + 1, name)

\* No File is open.
NoFileH == [state |-> "none", entry |-> 0, hasHandle |-> FALSE, pos |-> 0, limit |-> 0]

\* The result of a call: kind is ok, eof, err or panic; args are the
\* numbers the call was given.
TfRet(op, kind, err, n, bytes, name, list) ==
    [op |-> op, kind |-> kind, err |-> err, n |-> n, bytes |-> bytes, name |-> name, list |-> list,
     args |-> <<>>]

WithArgs(ret, args) == [ret EXCEPT !.args = args]

NoTfRet == TfRet("none", "none", "", 0, <<>>, <<>>, <<>>)

TarfsInit ==
    /\ tarfile \in Tars
    /\ handleIsReaderAt \in BOOLEAN
    /\ tfsFiles = NewFiles(tarfile)
    /\ tfsIndex = NewIndex(tarfile)
    /\ fileH = NoFileH
    /\ tfRet = NoTfRet
    /\ readSoFar = <<>>
    /\ onlyReads = TRUE
    /\ tfOps = 0

\* What no call changes: the tar and the FS built from it.
TarfsFrame ==
    /\ tfOps < MaxFileOps
    /\ tfOps' = tfOps + 1
    /\ UNCHANGED <<tarfile, handleIsReaderAt, tfsFiles, tfsIndex>>
    /\ UNCHANGED tarfsOthers

\* FS.Open(name): a File on the entry the index names; a handle and a
\* LimitReader only when the entry has data.
FSOpen(name) ==
    /\ fileH.state = "none"
    /\ TarfsFrame
    /\ IF name \notin DOMAIN tfsIndex
       THEN /\ tfRet' = TfRet("Open", "err", "fs.ErrNotExist", 0, <<>>, name, <<>>)
            /\ UNCHANGED fileH
       ELSE LET e == tfsFiles[tfsIndex[name]]
            IN  /\ tfRet' = TfRet("Open", "ok", "", 0, <<>>, name, <<>>)
                /\ fileH' = [state |-> "open", entry |-> tfsIndex[name],
                             hasHandle |-> e.Header.Size # 0,
                             pos |-> IF e.Header.Size # 0 THEN e.Offset ELSE 0,
                             limit |-> e.Header.Size]
    /\ UNCHANGED <<readSoFar, onlyReads>>

FSStat_AnyNameIsRoot(name) ==
    /\ TarfsFrame
    /\ tfRet' =
           IF name \in DOMAIN tfsIndex
           THEN TfRet("Stat", "ok", "", 0, <<>>, name, <<tfsFiles[tfsIndex[name]]>>)
           ELSE TfRet("Stat", "ok", "", 0, <<>>, name,
                      <<[Header |-> TarHeader(<<".">>, "dir", 0), Offset |-> 0, dir |-> <<>>,
                         fiName |-> <<".">>, fiIsDir |-> TRUE]>>)
    /\ UNCHANGED <<fileH, readSoFar, onlyReads>>

\* FS.Stat(name)
FSStat(name) ==
    /\ TarfsFrame
    /\ tfRet' =
           IF name \in DOMAIN tfsIndex
           THEN TfRet("Stat", "ok", "", 0, <<>>, name, <<tfsFiles[tfsIndex[name]]>>)
           ELSE IF name = <<".">>
           THEN TfRet("Stat", "ok", "", 0, <<>>, name,
                      <<[Header |-> TarHeader(<<".">>, "dir", 0), Offset |-> 0, dir |-> <<>>,
                         fiName |-> <<".">>, fiIsDir |-> TRUE]>>)
           ELSE TfRet("Stat", "err", "fs.ErrNotExist", 0, <<>>, name, <<>>)
    /\ UNCHANGED <<fileH, readSoFar, onlyReads>>

\* FS.ReadDir(name)
FSReadDir(name) ==
    /\ TarfsFrame
    /\ tfRet' = TfRet("ReadDir", "ok", "", 0, <<>>, name, SortByName(ChildrenOf(tfsFiles, 1, name)))
    /\ UNCHANGED <<fileH, readSoFar, onlyReads>>


\* The entry of the File that is open.
FileEntry == tfsFiles[fileH.entry]

\* The size of the underlying tar file.
TarSize == Len(TarBytes(tarfile))

Smaller(x, y) == IF x < y THEN x ELSE y

\* The bytes the underlying stream holds from position p on, at most n.
StreamBytes(p, n) ==
    IF p >= TarSize \/ n <= 0 THEN <<>>
    ELSE SubSeq(TarBytes(tarfile), p + 1, Smaller(p + n, TarSize))

\* A nil handle or reader was used: the goroutine panics.
FilePanics(op) ==
    /\ tfRet' = TfRet(op, "panic", "nil pointer dereference", 0, <<>>, <<>>, <<>>)
    /\ fileH' = [fileH EXCEPT !.state = "crashed"]

\* The lengths of the buffers read into.
ReadLens == {1, 3}

\* File.Read(p): the LimitReader set up by Open (or by ReadAt) reads from
\* the handle's position.
FileRead(len) ==
    /\ fileH.state = "open"
    /\ TarfsFrame
    /\ IF ~fileH.hasHandle
       THEN FilePanics("Read") /\ UNCHANGED readSoFar
       ELSE LET got == IF fileH.limit <= 0 THEN <<>>
                       ELSE StreamBytes(fileH.pos, Smaller(len, fileH.limit))
            IN  /\ tfRet' = WithArgs(TfRet("Read", IF got = <<>> THEN "eof" ELSE "ok", "", Len(got), got, <<>>, <<>>), <<len>>)
                /\ fileH' = [fileH EXCEPT !.pos = @ + Len(got), !.limit = @ - Len(got)]
                /\ readSoFar' = readSoFar \o got
    /\ UNCHANGED onlyReads

\* File.relativeOffset(offset, whence): an error, or the offset handed to
\* the handle's Seek.
relativeOffset(offset, whence) ==
    IF whence = SeekCurrent THEN [err |-> "", value |-> offset]
    ELSE IF whence = SeekStart /\ offset > FileEntry.Header.Size
    THEN [err |-> "offset greater than file size", value |-> 0]
    ELSE IF whence = SeekEnd /\ offset + FileEntry.Header.Size < 0
    THEN [err |-> "offset greater than file size", value |-> 0]
    ELSE IF whence \notin {SeekStart, SeekCurrent, SeekEnd}
    THEN [err |-> "invalid whence", value |-> 0]
    ELSE [err |-> "", value |-> FileEntry.Offset + offset]

\* The handle's own Seek (an *os.File or a bytes.Reader over the tar): the
\* absolute position asked for; a negative one is an error.
HandleSeekTarget(offset, whence) ==
    IF whence = SeekStart THEN offset
    ELSE IF whence = SeekCurrent THEN fileH.pos + offset
    ELSE TarSize + offset

SeekOffsets == {0 - 1, 0, 1, 3}

Whences == {SeekStart, SeekCurrent, SeekEnd, SeekBogus}

\* File.Seek(offset, whence)
FileSeek(offset, whence) ==
    /\ fileH.state = "open"
    /\ TarfsFrame
    /\ LET rel == relativeOffset(offset, whence)
           target == HandleSeekTarget(rel.value, whence)
       IN  IF rel.err # ""
           THEN /\ tfRet' = WithArgs(TfRet("Seek", "err", rel.err, 0, <<>>, <<>>, <<>>), <<offset, whence>>)
                /\ UNCHANGED fileH
           ELSE IF ~fileH.hasHandle
           THEN FilePanics("Seek")
           ELSE IF target < 0
           THEN /\ tfRet' = WithArgs(TfRet("Seek", "err", "negative position", 0, <<>>, <<>>, <<>>), <<offset, whence>>)
                /\ UNCHANGED fileH
           ELSE /\ tfRet' = WithArgs(TfRet("Seek", "ok", "", target - FileEntry.Offset, <<>>, <<>>, <<>>), <<offset, whence>>)
                /\ fileH' = [fileH EXCEPT !.pos = target]
    /\ onlyReads' = FALSE
    /\ UNCHANGED readSoFar

ReadAtOffsets == {0, 1, 2, 3}

\* File.ReadAt(p, off): through the handle's ReadAt when it has one,
\* otherwise a Seek, a new LimitReader and io.ReadFull.
FileReadAt(len, off) ==
    /\ fileH.state = "open"
    /\ TarfsFrame
    /\ LET size == FileEntry.Header.Size
           bytesLeft == size - off
           at == FileEntry.Offset + off
           wanted == Smaller(len, bytesLeft)
           got == StreamBytes(at, wanted)
       IN  IF fileH.hasHandle /\ handleIsReaderAt
           THEN IF len > bytesLeft /\ bytesLeft < 0
                THEN /\ tfRet' = TfRet("ReadAt", "panic", "slice bounds out of range", 0, <<>>, <<>>, <<>>)
                     /\ fileH' = [fileH EXCEPT !.state = "crashed"]
                ELSE /\ tfRet' = WithArgs(TfRet("ReadAt",
                                       IF Len(got) < wanted THEN "err" ELSE "ok",
                                       IF Len(got) < wanted THEN "io.EOF" ELSE "",
                                       Len(got), got, <<>>, <<>>), <<len, off>>)
                     /\ UNCHANGED fileH
           ELSE IF ~fileH.hasHandle
           THEN FilePanics("ReadAt")
           ELSE /\ tfRet' = WithArgs(TfRet("ReadAt",
                                  IF Len(got) = len THEN "ok" ELSE "err",
                                  IF Len(got) = len THEN ""
                                  ELSE IF got = <<>> THEN "io.EOF" ELSE "io.ErrUnexpectedEOF",
                                  Len(got), got, <<>>, <<>>), <<len, off>>)
                /\ fileH' = [fileH EXCEPT !.pos = at + Len(got), !.limit = bytesLeft - Len(got)]
    /\ onlyReads' = FALSE
    /\ UNCHANGED readSoFar

\* File.Close()
FileClose ==
    /\ fileH.state = "open"
    /\ TarfsFrame
    /\ IF ~fileH.hasHandle
       THEN FilePanics("Close")
       ELSE /\ tfRet' = TfRet("Close", "ok", "", 0, <<>>, <<>>, <<>>)
            /\ fileH' = [fileH EXCEPT !.state = "closed"]
    /\ UNCHANGED <<readSoFar, onlyReads>>

TarfsNext ==
    \/ \E name \in QueryNames : FSOpen(name)
    \/ \E name \in QueryNames : FSStat(name)
    \/ \E name \in QueryNames : FSReadDir(name)
    \/ \E len \in ReadLens : FileRead(len)
    \/ \E offset \in SeekOffsets, whence \in Whences : FileSeek(offset, whence)
    \/ \E len \in ReadLens, off \in ReadAtOffsets : FileReadAt(len, off)
    \/ FileClose

InitTarfs == TarfsInit /\ GriIdle /\ CacheIdle /\ PathIdle /\ InstallIdle /\ ResolveIdle /\ CompareIdle /\ ParseIdle /\ DepIdle /\ SignIdle /\ SplitIdle /\ EtagIdle

SpecTarfs == InitTarfs /\ [][TarfsNext]_vars


\* The names the tar stores.
StoredNames == {tarfile[i].Name : i \in 1..Len(tarfile)}

\* The File is open (or was) on an entry of the tar and only Read and Close
\* have been called on it.
OpenedAndOnlyRead == fileH.state \in {"open", "closed", "crashed"} /\ onlyReads

\* C21: after New(tar), for every entry e of the tar, of any size and also
\* for a directory, Open(e.name) succeeds, reading the File to EOF yields
\* exactly the bytes of that entry's data, and Close returns without fault.
C21_OpenReadsWholeEntry ==
    /\ (tfRet.op = "Open" /\ tfRet.name \in StoredNames) => tfRet.kind = "ok"
    /\ OpenedAndOnlyRead =>
        /\ tfRet.kind # "panic"
        /\ (tfRet.op = "Read" /\ tfRet.kind = "eof") =>
               \A i \in 1..Len(tarfile) :
                   tarfile[i].Name = tarfile[fileH.entry].Name => readSoFar = EntryData(tarfile, i)

\* What holds: an entry with data, the only one of its name, is read back
\* whole and closes.
EntryWithDataReadsWhole ==
    (OpenedAndOnlyRead /\ tarfile[fileH.entry].Size # 0) =>
        /\ tfRet.kind # "panic"
        /\ (tfRet.op = "Read" /\ tfRet.kind = "eof") => readSoFar = EntryData(tarfile, fileH.entry)

\* Read on the File of an entry without data panics.
ReadOfEmptyEntryPanics ==
    /\ tfRet.op = "Read" /\ tfRet.kind = "panic"
    /\ tarfile[fileH.entry].Size = 0 /\ onlyReads

\* Close on the File of a directory panics.
CloseOfDirectoryPanics ==
    /\ tfRet.op = "Close" /\ tfRet.kind = "panic"
    /\ tarfile[fileH.entry].Typeflag = "dir"

\* Of two entries of one name the first is never the one read.
EarlierDuplicateNotRead ==
    /\ OpenedAndOnlyRead /\ tfRet.op = "Read" /\ tfRet.kind = "eof"
    /\ \E i \in 1..Len(tarfile) :
           tarfile[i].Name = tarfile[fileH.entry].Name /\ readSoFar # EntryData(tarfile, i)


\* C22 as stated: for every name that is not an entry of the tar, Open,
\* Stat and ReadDir each fail with a not-found error; only Stat(".")
\* returns a directory when the tar has no "." entry.
C22_UnknownNameNotFound ==
    (tfRet.op \in {"Open", "Stat", "ReadDir"} /\ tfRet.name \notin StoredNames) =>
        IF tfRet.op = "Stat" /\ tfRet.name = <<".">>
        THEN tfRet.kind = "ok" /\ tfRet.list[1].fiIsDir
        ELSE tfRet.kind = "err" /\ tfRet.err = "fs.ErrNotExist"

\* C22, amended: for every name that is not an entry of the tar, Open and
\* Stat fail with a not-found error, except Stat("."), which returns a
\* directory; ReadDir never fails: it returns the entries whose stored
\* directory is the name, none when there is no such entry.
C22_UnknownNameNotFoundByOpenAndStat ==
    (tfRet.op \in {"Open", "Stat", "ReadDir"} /\ tfRet.name \notin StoredNames) =>
        IF tfRet.op = "ReadDir"
        THEN /\ tfRet.kind = "ok"
             /\ \A i \in 1..Len(tfsFiles) :
                    (tfsFiles[i].dir = tfRet.name) <=> (\E k \in 1..Len(tfRet.list) : tfRet.list[k] = tfsFiles[i])
        ELSE IF tfRet.op = "Stat" /\ tfRet.name = <<".">>
        THEN tfRet.kind = "ok" /\ tfRet.list[1].fiIsDir
        ELSE tfRet.kind = "err" /\ tfRet.err = "fs.ErrNotExist"

\* Stat of a name the tar does not hold, other than ".", was refused.
C22_Witness ==
    /\ tfRet.op = "Stat" /\ tfRet.name \notin StoredNames /\ tfRet.name # <<".">>
    /\ tfRet.kind = "err"

\* ReadDir of the root of a tar without a "." entry lists the root's files.
C22_WitnessReadDirOfRoot ==
    /\ tfRet.op = "ReadDir" /\ tfRet.name = <<".">> /\ tfRet.name \notin StoredNames
    /\ tfRet.kind = "ok" /\ Len(tfRet.list) > 0

\* The directory that holds the entry of this name: the directory of the
\* name without its trailing slashes.
ParentOf(name) == Dir(TrimTrailingSlashes(name))

\* A list of entries is in ascending order of name.
SortedByName(list) ==
    \A k \in 1..(Len(list) - 1) : ~StringLess(list[k + 1].fiName, list[k].fiName)

\* C23: for every entry e of the tar, file or directory, ReadDir of the
\* directory holding e contains e; and every list ReadDir returns is
\* sorted ascending by name.
C23_ReadDirListsChildrenSorted ==
    tfRet.op = "ReadDir" =>
        /\ tfRet.kind = "ok"
        /\ SortedByName(tfRet.list)
        /\ \A i \in 1..Len(tarfile) :
               ParentOf(tarfile[i].Name) = tfRet.name =>
                   \E k \in 1..Len(tfRet.list) : tfRet.list[k] = tfsFiles[i]

\* What holds: the lists are sorted and hold the files of the directory.
ReadDirListsFilesSorted ==
    tfRet.op = "ReadDir" =>
        /\ tfRet.kind = "ok"
        /\ SortedByName(tfRet.list)
        /\ \A i \in 1..Len(tarfile) :
               (tarfile[i].Typeflag = "reg" /\ ParentOf(tarfile[i].Name) = tfRet.name) =>
                   \E k \in 1..Len(tfRet.list) : tfRet.list[k] = tfsFiles[i]

\* A directory stored as "d/" is missing from the list of the root and
\* listed in itself.
DirectoryListedInItself ==
    /\ tfRet.op = "ReadDir" /\ tfRet.name = <<"d">>
    /\ \E k \in 1..Len(tfRet.list) : tfRet.list[k].Header.Name = <<"d", "/">>

\* Two files of one directory listed in the order of their names, not of
\* the tar.
ReadDirSortedAgainstTarOrder ==
    /\ tfRet.op = "ReadDir" /\ Len(tfRet.list) = 2
    /\ tfRet.list[1] = tfsFiles[2] /\ tfRet.list[2] = tfsFiles[1]


\* The size of the entry the File is open on.
FileSize == FileEntry.Header.Size

\* C24: for an open File of size S and every whence, Seek either returns
\* an error or moves the handle to a position p with 0 <= p <= S from the
\* start of the entry's data and returns p; Seek(0, end) returns S and a
\* negative target position is rejected.
C24_SeekStaysInEntry ==
    tfRet.op = "Seek" =>
        /\ tfRet.kind \in {"ok", "err"}
        /\ tfRet.kind = "ok" =>
               /\ 0 <= tfRet.n /\ tfRet.n <= FileSize
               /\ fileH.pos = FileEntry.Offset + tfRet.n
        /\ tfRet.args = <<0, SeekEnd>> => (tfRet.kind = "ok" /\ tfRet.n = FileSize)
        /\ (tfRet.args[2] = SeekStart /\ tfRet.args[1] < 0) => tfRet.kind = "err"
        /\ (tfRet.args[2] = SeekEnd /\ FileSize + tfRet.args[1] < 0) => tfRet.kind = "err"

\* What holds of Seek: a target after the entry is refused from the start,
\* a target before it from the end, and so is an unknown whence.
SeekRefusesWhatItChecks ==
    (tfRet.op = "Seek" /\ tfRet.kind # "panic") =>
        /\ (tfRet.args[2] = SeekStart /\ tfRet.args[1] > FileSize) => tfRet.kind = "err"
        /\ (tfRet.args[2] = SeekEnd /\ FileSize + tfRet.args[1] < 0) => tfRet.kind = "err"
        /\ tfRet.args[2] = SeekBogus => tfRet.kind = "err"
        /\ tfRet.kind = "ok" => fileH.pos = FileEntry.Offset + tfRet.n

\* Seek(0, end) answers with the size of the whole tar taken from the
\* entry's offset, not with the size of the entry.
SeekEndCountsFromEndOfTar ==
    /\ tfRet.op = "Seek" /\ tfRet.args = <<0, SeekEnd>> /\ tfRet.kind = "ok"
    /\ tfRet.n = TarSize
    /\ tfRet.n # FileSize

\* Seek(-1, start) is accepted and answers -1.
SeekStartAcceptsNegative ==
    /\ tfRet.op = "Seek" /\ tfRet.args = <<0 - 1, SeekStart>> /\ tfRet.kind = "ok"
    /\ tfRet.n = 0 - 1

\* Seek on the File of an entry without data panics.
SeekOfEmptyEntryPanics ==
    tfRet.op = "Seek" /\ tfRet.kind = "panic" /\ FileSize = 0

\* The bytes are data of the entry the File is open on.
InsideEntry(bytes) ==
    \A k \in 1..Len(bytes) : bytes[k][1] = "data" /\ bytes[k][2] = fileH.entry

\* C29: every byte returned by Read and ReadAt calls that return without
\* error comes from the entry's data region, also after a Seek; a ReadAt
\* with 0 <= off <= Size returns at most Size - off bytes; and a ReadAt
\* does not change what later Read calls return.
C29_ReadsStayInEntry ==
    /\ []((tfRet.op \in {"Read", "ReadAt"} /\ tfRet.kind = "ok") =>
            /\ InsideEntry(tfRet.bytes)
            /\ (tfRet.op = "ReadAt" /\ tfRet.args[2] <= FileSize) => tfRet.n <= FileSize - tfRet.args[2])
    /\ [][(tfOps' = tfOps + 1 /\ tfRet'.op = "ReadAt" /\ tfRet'.kind = "ok") =>
              (fileH'.pos = fileH.pos /\ fileH'.limit = fileH.limit)]_vars

\* What holds: a File that is only read returns bytes of its entry, and so
\* does ReadAt through a handle that is an io.ReaderAt, which leaves the
\* handle where it was.
ReadsStayInEntryWithoutSeek ==
    /\ []((tfRet.op = "Read" /\ tfRet.kind = "ok" /\ onlyReads) => InsideEntry(tfRet.bytes))
    /\ []((tfRet.op = "ReadAt" /\ tfRet.kind = "ok") =>
            (InsideEntry(tfRet.bytes) /\ tfRet.n <= FileSize - tfRet.args[2]))
    /\ [][(tfOps' = tfOps + 1 /\ tfRet'.op = "ReadAt" /\ tfRet'.kind = "ok" /\ handleIsReaderAt) =>
              (fileH'.pos = fileH.pos /\ fileH'.limit = fileH.limit)]_vars

\* A Read after a Seek returned bytes that follow the entry in the tar.
ReadAfterSeekLeavesEntry ==
    /\ tfRet.op = "Read" /\ tfRet.kind = "ok" /\ ~onlyReads
    /\ ~InsideEntry(tfRet.bytes)

\* A ReadAt through a handle that is no io.ReaderAt moved the handle.
ReadAtMovedHandle ==
    /\ tfRet.op = "ReadAt" /\ tfRet.kind = "ok" /\ ~handleIsReaderAt /\ tfOps = 2
    /\ fileH.pos # FileEntry.Offset


\* The path of the entry of cacheFile under this ETag.
EtagPath(cacheFile, etag) == cacheFileFromEtag(cacheFile, etag)

\* The body the origin serves with this ETag.
BodyOfEtag(etag) == Body(ContentOf([present |-> TRUE, quoted |-> FALSE, value |-> etag]))

\* The step in which process p's GET comes back.
GetReturns(p) == tp[p].pc = "get" /\ tp'[p].pc # "get"

\* The step in which process p publishes its staging file.
Publishes(p) == tp[p].pc = "copy" /\ tp'[p].pc = "openFinal"

\* C25: after any sequence of online ETag-required round trips every file
\* at an ETag-derived path holds the complete body of a 200 GET response
\* that carried that ETag; when the GET's ETag differs from the HEAD's the
\* body is stored under the GET's ETag and nothing under the HEAD's; a GET
\* response without an ETag is stored nowhere and yields an error.
C25_PublishedUnderGetEtag ==
    /\ [](\A cf \in CacheFiles, e \in Etags :
            EtagPath(cf, e) \in DOMAIN fsys => fsys[EtagPath(cf, e)].content = BodyOfEtag(e))
    /\ [][\A p \in Procs :
            /\ GetReturns(p) =>
                  \/ /\ tp'[p].pc = "done" /\ tp'[p].out.kind = "origin" /\ tp'[p].out.status # 200
                     /\ UNCHANGED <<fsys, dirs>>
                  \/ /\ tp'[p].pc = "done" /\ tp'[p].out = ErrOut
                     /\ UNCHANGED <<fsys, dirs>>
                  \/ /\ tp'[p].pc = "createTemp"
                     /\ tp'[p].resp.status = 200
                     /\ etagFromResponse(tp'[p].resp).ok
                     /\ tp'[p].finalFile = EtagPath(tp[p].cacheFile, etagFromResponse(tp'[p].resp).etag)
                     /\ UNCHANGED fsys
            /\ Publishes(p) =>
                  LET final == EtagPath(tp[p].cacheFile, etagFromResponse(tp[p].resp).etag) IN
                  /\ DOMAIN fsys' \ DOMAIN fsys \subseteq {final}
                  /\ fsys'[final].content = tp[p].resp.body
                  /\ \A f \in (DOMAIN fsys' \cap DOMAIN fsys) \ {final} : fsys'[f] = fsys[f]]_vars

\* C25 happens: HEAD named one ETag, GET another; the body is published
\* under the GET's ETag and there is no file under the HEAD's.
C25_Witness ==
    \E p \in Procs :
        /\ tp[p].pc = "openFinal"
        /\ tp[p].initialEtag # etagFromResponse(tp[p].resp).etag
        /\ tp[p].finalFile = EtagPath(tp[p].cacheFile, etagFromResponse(tp[p].resp).etag)
        /\ tp[p].finalFile \in DOMAIN fsys
        /\ fsys[tp[p].finalFile].content = tp[p].resp.body
        /\ EtagPath(tp[p].cacheFile, tp[p].initialEtag) \notin DOMAIN fsys

\* A GET that answered 200 without an ETag after a HEAD with one: an error
\* is returned and the cache is as it was before the call.
C25_WitnessGetWithoutEtag ==
    \E p \in Procs :
        /\ tp[p].pc = "done" /\ tp[p].out = ErrOut
        /\ tp[p].net = <<"HEAD", "GET">>
        /\ fsys = <<>>


\* Process p's RoundTrip, offline in ETag-required mode, served a body.
OfflineServed(p) ==
    tp[p].pc = "done" /\ tp[p].offline /\ tp[p].etagRequired /\ tp[p].out.kind = "cache"

\* C26: in offline ETag-required mode, under any interleaving with an
\* online fetch that is staging into the same cache directory, the body
\* served is a fully published ETag-addressed entry: never a *.tmp staging
\* file, a file left behind by a failed fetch, a subdirectory, or a file
\* that is no ETag-addressed entry.
C26_OfflineServesPublishedEntry ==
    \A p \in Procs :
        OfflineServed(p) =>
            /\ \E e \in Etags : tp[p].out.from = EtagPath(tp[p].cacheFile, e)
            /\ ~IsTmpName(PathBase(tp[p].out.from))
            /\ tp[p].out.body \in FullBodies

\* What holds: what is served offline is an entry of the ETag directory as
\* it was listed, whatever that entry is.
OfflineServesSomeListedEntry ==
    \A p \in Procs :
        OfflineServed(p) =>
            /\ PathDir(tp[p].out.from) = cacheDirFromFile(tp[p].cacheFile)
            /\ PathBase(tp[p].out.from) \in DOMAIN tp[p].listed

\* The staging file of a fetch that is still copying was served offline,
\* with the part of the body written so far.
OfflineServedStagingFile ==
    \E p \in Procs, q \in Procs :
        /\ OfflineServed(p)
        /\ tp[q].pc = "copy" /\ tp[q].tmp = tp[p].out.from
        /\ IsTmpName(PathBase(tp[p].out.from))
        /\ Len(tp[p].out.body) \in 1..(BodyLen - 1)

\* The subdirectory APKINDEX was served offline as the package's body.
OfflineServedSubdirectory ==
    \E p \in Procs :
        /\ OfflineServed(p)
        /\ tp[p].out.from \in DOMAIN dirs
        /\ tp[p].out.body = DirBody


\* Process p takes the step: its locals change, or the staging file it is
\* copying into does.
Acts(p) ==
    \/ tp'[p] # tp[p]
    \/ /\ tp[p].pc = "copy" /\ tp[p].tmp \in DOMAIN fsys
       /\ (tp[p].tmp \notin DOMAIN fsys' \/ fsys'[tp[p].tmp] # fsys[tp[p].tmp])

\* The step in which process p's RoundTrip, online in ETag-required mode,
\* sends its HEAD.
SendsHead(p) ==
    /\ tp[p].pc \in {"idle", "done"} /\ tp'[p] # tp[p]
    /\ tp'[p].etagRequired /\ ~tp'[p].offline

\* Process p is past a HEAD that returned 200 with an ETag and a GET that
\* returned 200 with an ETag.
InFullFetch(p) ==
    /\ tp[p].pc \in {"get", "createTemp", "copy"}
    /\ tp'[p].pc \in {"createTemp", "copy", "openFinal"}
    /\ tp[p].etagRequired /\ ~tp[p].offline
    /\ tp[p].headStatus = 200 /\ tp[p].initialEtag # ""
    /\ tp'[p].net = <<"HEAD", "GET">>
    /\ tp'[p].resp.status = 200 /\ etagFromResponse(tp'[p].resp).ok

\* C28: online in ETag-required mode a RoundTrip creates or changes files
\* under the cache root only when HEAD returned 200 with an ETag, no entry
\* of that ETag existed and GET returned 200 with an ETag; in every other
\* outcome the cache directory is left unchanged, and after a HEAD that is
\* not 200 no GET is issued.
C28_OnlyFullFetchTouchesCache ==
    [][/\ (fsys' # fsys \/ dirs' # dirs) => \E q \in Procs : Acts(q) /\ InFullFetch(q)
       /\ \A p \in Procs :
            /\ SendsHead(p) =>
                  /\ UNCHANGED <<fsys, dirs>>
                  /\ tp'[p].net[1] = "HEAD"
                  /\ tp'[p].headStatus # 200 =>
                         /\ tp'[p].pc = "done" /\ tp'[p].net = <<"HEAD">>
                         /\ tp'[p].out.kind = "origin" /\ tp'[p].out.status = tp'[p].headStatus
                  /\ tp'[p].pc = "get" =>
                         /\ tp'[p].headStatus = 200 /\ tp'[p].initialEtag # ""
                         /\ EtagPath(tp'[p].cacheFile, tp'[p].initialEtag) \notin DOMAIN fsys
                  /\ (tp'[p].pc = "done" /\ tp'[p].out.kind = "cache") =>
                         /\ tp'[p].net = <<"HEAD">>
                         /\ tp'[p].out.from \in DOMAIN fsys
            /\ (GetReturns(p) /\ tp'[p].pc = "done") => UNCHANGED <<fsys, dirs>>]_vars

\* C28 happens: a HEAD with an ETag that is not in the cache, a GET with an
\* ETag, and the entry is in the cache that was empty.
C28_Witness ==
    \E p \in Procs :
        /\ tp[p].pc = "done" /\ tp[p].etagRequired /\ ~tp[p].offline
        /\ tp[p].out.kind = "fetched"
        /\ tp[p].headStatus = 200 /\ tp[p].net = <<"HEAD", "GET">>
        /\ DOMAIN fsys = {tp[p].out.from}

\* A HEAD answered 404: it is returned, no GET went out and the cache is
\* empty as before.
C28_WitnessHeadNotFound ==
    \E p \in Procs :
        /\ tp[p].pc = "done" /\ tp[p].etagRequired /\ ~tp[p].offline
        /\ tp[p].headStatus = 404 /\ tp[p].net = <<"HEAD">> /\ tp[p].out.status = 404
        /\ fsys = <<>> /\ dirs = ColdDirs


\* ==========================================================================
\* The file an ETag names (cacheFileFromEtag, etagFromResponse and
\* retrieveAndSaveFile of cache.go, over strings of characters)
\* ==========================================================================

\* Bound: the number of pieces an ETag header value is made of.
MaxEtagPieces == 4

\* The pieces a server puts together: a letter, a "..", a separator, a
\* quote.
EtagPieces == {<<"e">>, <<".", ".">>, <<"/">>, <<"\"">>}

RECURSIVE EtagHeaderValues(_)
EtagHeaderValues(n) ==
    IF n = 0 THEN {<<>>}
    ELSE LET shorter == EtagHeaderValues(n - 1)
         IN  shorter \cup {h \o piece : h \in shorter, piece \in EtagPieces}

\* The cache root and the cache paths of an index and of a package below
\* it.
CacheRoot == <<"/", "c">>

IndexSuffix == <<"A", "P", "K", "I", "N", "D", "E", "X", ".", "t", "a", "r", ".", "g", "z">>

IndexCachePath == CacheRoot \o <<"/", "r", "/">> \o IndexSuffix

PackageCachePath == CacheRoot \o <<"/", "r", "/", "p", ".", "a", "p", "k">>

\* strings.Trim(str, `"`)
RECURSIVE TrimQuotes(_)
TrimQuotes(str) ==
    IF str = <<>> THEN str
    ELSE IF str[1] = "\"" THEN TrimQuotes(Tail(str))
    ELSE IF str[Len(str)] = "\"" THEN TrimQuotes(SubSeq(str, 1, Len(str) - 1))
    ELSE str

\* etagFromResponse for a response whose ETag header has the value header.
EtagOfHeader(header) ==
    IF header = <<>> THEN [etag |-> <<>>, ok |-> FALSE]
    ELSE [etag |-> TrimQuotes(header), ok |-> TrimQuotes(header) # <<>>]

\* cacheDirFromFile: the directory of the ETag entries of a cache path.
EtagDirOf(cacheFile) ==
    IF IsSuffixSeq(IndexSuffix, cacheFile)
    THEN Join(<<Dir(cacheFile), <<"A", "P", "K", "I", "N", "D", "E", "X">>>>)
    ELSE Dir(cacheFile)

\* cacheFileFromEtag
EtagFileOf(cacheFile, etag) ==
    LET isIndex == IsSuffixSeq(IndexSuffix, cacheFile)
        cacheDir == IF isIndex
                    THEN Join(<<Dir(cacheFile), <<"A", "P", "K", "I", "N", "D", "E", "X">>>>)
                    ELSE Dir(cacheFile)
        ext == IF isIndex THEN <<".", "t", "a", "r", ".", "g", "z">>
               ELSE <<".", "e", "t", "a", "g">>
    IN  Join(<<cacheDir, etag \o ext>>)

\* The name os.CreateTemp(cacheDir, "*.tmp") makes.
TempIn(cacheDir) == Join(<<cacheDir, <<"1", ".", "t", "m", "p">>>>)

\* A GET returned 200 with the ETag header; nothing is in the cache.
EtagInit ==
    /\ etagHeader \in EtagHeaderValues(MaxEtagPieces)
    /\ etagCacheFile \in {IndexCachePath, PackageCachePath}
    /\ etagPc = "get"
    /\ etagFinal = <<>>
    /\ etagDirs = {}
    /\ etagFiles = {}
    /\ etagRet = "pending"

\* retrieveAndSaveFile 198-205: the placer of RoundTrip and MkdirAll of the
\* directory of the name it returns.
EtagPlace ==
    /\ etagPc = "get"
    /\ LET final == EtagOfHeader(etagHeader) IN
       IF ~final.ok
       THEN /\ etagPc' = "done" /\ etagRet' = "error"
            /\ UNCHANGED <<etagFinal, etagDirs>>
       ELSE /\ etagFinal' = EtagFileOf(etagCacheFile, final.etag)
            /\ etagDirs' = etagDirs \cup {Dir(EtagFileOf(etagCacheFile, final.etag))}
            /\ etagPc' = "createTemp"
            /\ UNCHANGED etagRet
    /\ UNCHANGED <<etagHeader, etagCacheFile, etagFiles>>
    /\ UNCHANGED etagOthers

\* retrieveAndSaveFile 209-222: the staging file in that directory, the body
\* copied into it.
EtagCreateTemp ==
    /\ etagPc = "createTemp"
    /\ etagFiles' = etagFiles \cup {TempIn(Dir(etagFinal))}
    /\ etagPc' = "rename"
    /\ UNCHANGED <<etagHeader, etagCacheFile, etagFinal, etagDirs, etagRet>>
    /\ UNCHANGED etagOthers

\* retrieveAndSaveFile 226-236: the rename to the final name.
EtagRename ==
    /\ etagPc = "rename"
    /\ etagFiles' = (etagFiles \ {TempIn(Dir(etagFinal))}) \cup {etagFinal}
    /\ etagPc' = "done"
    /\ etagRet' = "ok"
    /\ UNCHANGED <<etagHeader, etagCacheFile, etagFinal, etagDirs>>
    /\ UNCHANGED etagOthers

EtagNext == EtagPlace \/ EtagCreateTemp \/ EtagRename

InitEtag == EtagInit /\ GriIdle /\ CacheIdle /\ PathIdle /\ InstallIdle /\ ResolveIdle /\ CompareIdle /\ ParseIdle /\ DepIdle /\ SignIdle /\ SplitIdle /\ TarfsIdle

SpecEtag == InitEtag /\ [][EtagNext]_vars

\* path lies below the cache root.
UnderCacheRoot(path) == HasPrefix(path, CacheRoot \o <<"/">>)

\* C27: for every ETag value a server may return, separators and ".."
\* included, the file the transport creates lies directly inside the ETag
\* directory of the request's cache path, and so inside the cache root; the
\* transport creates no directory and writes no file elsewhere.
C27_EtagFileInsideEtagDir ==
    /\ \A f \in etagFiles : Dir(f) = EtagDirOf(etagCacheFile) /\ UnderCacheRoot(f)
    /\ \A d \in etagDirs : d = EtagDirOf(etagCacheFile)

\* What holds: an ETag without a separator names a file directly inside the
\* ETag directory.
EtagWithoutSlashStaysInDir ==
    (\A i \in 1..Len(etagHeader) : etagHeader[i] # "/") => C27_EtagFileInsideEtagDir

\* The ETag "../../" of a package: the entry is written outside the cache
\* root.
EtagEscapesCacheRoot ==
    /\ etagPc = "done" /\ etagRet = "ok"
    /\ etagCacheFile = PackageCachePath
    /\ etagHeader = <<".", ".", "/", ".", ".", "/">>
    /\ etagFiles = {<<"/", ".", "e", "t", "a", "g">>}
    /\ ~UnderCacheRoot(etagFinal)

\* The ETag "e/e": the transport makes a directory below the ETag directory
\* and writes into it.
EtagMakesSubdirectory ==
    /\ etagPc = "done" /\ etagRet = "ok"
    /\ etagHeader = <<"e", "/", "e">>
    /\ \E d \in etagDirs : d # EtagDirOf(etagCacheFile) /\ HasPrefix(d, EtagDirOf(etagCacheFile))
    /\ \E f \in etagFiles : Dir(f) # EtagDirOf(etagCacheFile)

=============================================================================
